---------------------------- MODULE Spec2Model ----------------------------
(***************************************************************************)
(* A model of the xylosip SIP parser (RFC 3261 grammar written with nom    *)
(* parser combinators).  Input is a sequence of byte values (0..255).  A   *)
(* parse result is one of                                                  *)
(*   [t |-> "Ok", rest |-> remaining input, val |-> parsed value]          *)
(*   [t |-> "Error",   kind |-> k]   recoverable: alt tries the next branch *)
(*   [t |-> "Failure", kind |-> k]   hard: propagates through alt/opt/many0 *)
(* A production is an operator from the result so far to the next result:  *)
(* applied to an Ok result it parses that result's rest, applied to an     *)
(* Error or a Failure it returns it unchanged (the `?` of the Rust code, or *)
(* the early exit of tuple/pair/preceded/terminated).  nom's               *)
(* tuple((p, q, r))(input) is therefore r(q(p(Start(input)))).             *)
(* Each call of a production on an input is one step of the state machine. *)
(***************************************************************************)
EXTENDS Integers, Sequences, FiniteSets, TLC

VARIABLES
  pc,     \* "call" before the production runs, "alt" between the two branches
          \* of sip_message, "return" after
  call,   \* the production invoked
  input,  \* the bytes handed to it
  out,    \* its result (<<>> before the call)
  tried   \* the grammars sip_message has applied to the input, in order

vars == <<pc, call, input, out, tried>>

---------------------------------------------------------------------------
(* nom's result type and combinators                                       *)

Ok(rest, val) == [t |-> "Ok", rest |-> rest, val |-> val]
Error(kind) == [t |-> "Error", kind |-> kind]
Failure(kind) == [t |-> "Failure", kind |-> kind]

\* the result a parser starts from on input i
Start(i) == Ok(i, <<>>)

\* sequencing: the parsers that follow result r, given r (r is evaluated once)
and_then(r, next(_)) == next(r)

\* Option<T>: None is the empty sequence, Some(v) is <<v>>.
None == <<>>
Some(v) == <<v>>

Take(i, n) == SubSeq(i, 1, n)
Drop(i, n) == SubSeq(i, n + 1, Len(i))
Chars(s) == {s[k] : k \in DOMAIN s}

\* what a parser that left `rest` of `i` has consumed
Consumed(i, rest) == Take(i, Len(i) - Len(rest))

tag(t, a) ==
  IF a.t # "Ok" THEN a
  ELSE IF Len(t) <= Len(a.rest) /\ Take(a.rest, Len(t)) = t
  THEN Ok(Drop(a.rest, Len(t)), t)
  ELSE Error("Tag")

\* a variant of tag_no_case that tells upper case from lower case
tag_case(t, a) == tag(t, a)

to_ascii_lowercase(c) == IF c \in 65..90 THEN c + 32 ELSE c

tag_no_case(t, a) ==
  IF a.t # "Ok" THEN a
  ELSE IF Len(t) <= Len(a.rest)
     /\ \A k \in 1..Len(t) : to_ascii_lowercase(a.rest[k]) = to_ascii_lowercase(t[k])
  THEN Ok(Drop(a.rest, Len(t)), Take(a.rest, Len(t)))
  ELSE Error("Tag")

\* the length of the longest prefix of i, of at most n bytes, inside set P
PrefixLen(P, n, i) ==
  LET upto(m) ==
        CHOOSE k \in 0..m :
          (\A j \in 1..k : i[j] \in P) /\ (k = m \/ i[k + 1] \notin P)
  IN upto(IF n < Len(i) THEN n ELSE Len(i))

\* the first k bytes of a.rest are taken if they are at least m
TakePrefix(a, k, m, kind) ==
  IF k >= m THEN Ok(Drop(a.rest, k), Take(a.rest, k)) ELSE Error(kind)

take_while_m_n(m, n, P, a) ==
  IF a.t # "Ok" THEN a
  ELSE TakePrefix(a, PrefixLen(P, n, a.rest), m, "TakeWhileMN")

take_while(P, a) ==
  IF a.t # "Ok" THEN a
  ELSE TakePrefix(a, PrefixLen(P, Len(a.rest), a.rest), 0, "TakeWhile")

take_while1(P, a) ==
  IF a.t # "Ok" THEN a
  ELSE TakePrefix(a, PrefixLen(P, Len(a.rest), a.rest), 1, "TakeWhile1")

\* nom's is_a: one or more bytes of the set
is_a(P, a) ==
  IF a.t # "Ok" THEN a
  ELSE TakePrefix(a, PrefixLen(P, Len(a.rest), a.rest), 1, "IsA")

\* a variant of alt_next that also moves on after a Failure
alt_next_any(r) == r.t # "Ok"

\* alt moves on to its next branch only after a recoverable Error
alt_next(r) == r.t = "Error"

\* alt of two branches, given the result of each on the same input
alt(r, s) == IF alt_next(r) THEN s ELSE r

\* alt over a list of alternatives, given as the results each one has on the
\* same input: the first result alt does not move on from, else the last one
alts(rs) ==
  rs[CHOOSE i \in 1..Len(rs) :
       /\ i = Len(rs) \/ ~alt_next(rs[i])
       /\ \A j \in 1..(i - 1) : alt_next(rs[j])]

\* opt(p) from result a, given r = p(a)
opt(a, r) ==
  IF a.t # "Ok" THEN a
  ELSE IF r.t = "Error" THEN Ok(a.rest, None)
  ELSE IF r.t = "Ok" THEN Ok(r.rest, Some(r.val))
  ELSE r

\* recognize(p) from result a, given r = p(a): the value is what p consumed
recognize(a, r) ==
  IF r.t = "Ok" THEN Ok(r.rest, Consumed(a.rest, r.rest)) ELSE r

\* replaces the value of a successful result
map(r, v) == IF r.t = "Ok" THEN Ok(r.rest, v) ELSE r

\* One round of many0(p) from result a: r = p(a) and m is the result of
\* many0(p) from r.  An element that consumes nothing is an Error (nom's
\* guard against looping forever).
many0(a, r, m) ==
  IF a.t # "Ok" THEN a
  ELSE IF r.t = "Error" THEN Ok(a.rest, <<>>)
  ELSE IF r.t = "Failure" THEN r
  ELSE IF r.rest = a.rest THEN Error("Many0")
  ELSE IF m.t = "Ok" THEN Ok(m.rest, <<r.val>> \o m.val)
  ELSE m

\* many1(p): r is the first element's result (required; its Error is
\* returned as it is), m the result of the many0(p) loop from r
many1(r, m) ==
  IF r.t # "Ok" THEN r
  ELSE IF m.t = "Ok" THEN Ok(m.rest, <<r.val>> \o m.val)
  ELSE m

---------------------------------------------------------------------------
(* Character classes (nom::character and tokens.rs), as sets of bytes.     *)

is_digit == 48..57
is_alphabetic == (65..90) \cup (97..122)
is_alphanumeric == is_alphabetic \cup is_digit
is_hex_digit == is_digit \cup (65..70) \cup (97..102)
\* nom::character::is_space (space or tab), the class of space0 and space1;
\* tokens.rs has its own is_space (space only), which no modelled parser uses
is_space == {32, 9}
is_alphanumeric_hyphen == is_alphanumeric \cup {45}
is_reserved == Chars(<<59, 47, 63, 58, 64, 38, 61, 43, 36, 44>>)  \* ';/?:@&=+$,'
is_unreserved == Chars(<<45, 95, 46, 33, 126, 42, 39, 40, 41>>) \cup is_alphanumeric  \* '-_.!~*'()'
is_token == is_alphanumeric \cup Chars(<<45, 46, 33, 37, 42, 95, 43, 96, 39, 126, 96>>)  \* '-.!%*_+`'~`'
is_word == is_alphanumeric \cup Chars(<<45, 46, 33, 37, 42, 95, 43, 96, 39, 126, 40, 41, 60, 62, 58, 92, 34, 47, 91, 93, 63, 123, 125>>)  \* '-.!%*_+`'~()<>:\\\"/[]?{}'
is_utf8_cont == 128..191
is_utf8_ascii == 33..126
is_utf8_nonascii == 192..253
is_param_char == is_unreserved \cup Chars(<<91, 93, 47, 58, 38, 43, 36>>)  \* '[]/:&+$'
is_header_char == is_unreserved \cup Chars(<<91, 93, 47, 63, 58, 43, 36>>)  \* '[]/?:+$'
is_uric == is_reserved \cup is_unreserved
is_uric_no_slash == is_uric \ {47}
is_scheme_char == is_alphanumeric \cup Chars(<<43, 45, 46>>)  \* '+-.'
is_quoted_text_char == {33} \cup (35..91) \cup (93..126)
is_quotable_character == (0..9) \cup {11, 12} \cup (14..127)

---------------------------------------------------------------------------
(* tokens.rs                                                               *)

newline(a) ==
  IF a.t # "Ok" THEN a
  ELSE
  tag(<<13, 10>>, a)  \* '\r\n'

\* nom::character::complete::space0 / space1: spaces and tabs
space0(a) ==
  IF a.t # "Ok" THEN a
  ELSE
  take_while(is_space, a)
space1(a) ==
  IF a.t # "Ok" THEN a
  ELSE
  take_while1(is_space, a)

\* LWS = [*WSP CRLF] 1*WSP
linear_whitespace(a) ==
  IF a.t # "Ok" THEN a
  ELSE
  LET fold(b) == opt(b, newline(space0(b)))
  IN recognize(a, space1(fold(a)))

separator_whitespace(a) ==
  IF a.t # "Ok" THEN a
  ELSE
  recognize(a, opt(a, linear_whitespace(a)))

header_colon(a) ==
  IF a.t # "Ok" THEN a
  ELSE
  recognize(a, separator_whitespace(tag(<<58>>, space0(a))))  \* ':'

token(a) ==
  IF a.t # "Ok" THEN a
  ELSE
  take_while1(is_token, a)

\* token, then std::str::from_utf8 (token bytes are ASCII: it cannot fail)
token_str(a) ==
  IF a.t # "Ok" THEN a
  ELSE
  token(a)

\* a punctuation byte c wrapped in optional LWS: slash, equal, comma,
\* semicolon, colon (and star, the parentheses) are all this shape
SWS_char_SWS(c, a) ==
  IF a.t # "Ok" THEN a
  ELSE
  recognize(a, separator_whitespace(tag(<<c>>, separator_whitespace(a))))

slash(a) ==
  IF a.t # "Ok" THEN a
  ELSE
  SWS_char_SWS(47, a)
equal(a) ==
  IF a.t # "Ok" THEN a
  ELSE
  SWS_char_SWS(61, a)
comma(a) ==
  IF a.t # "Ok" THEN a
  ELSE
  SWS_char_SWS(44, a)
semicolon(a) ==
  IF a.t # "Ok" THEN a
  ELSE
  SWS_char_SWS(59, a)
colon(a) ==
  IF a.t # "Ok" THEN a
  ELSE
  SWS_char_SWS(58, a)

\* one lead byte in `lead` followed by exactly n continuation bytes
utf8_nonascii_lead(lead, n, a) ==
  IF a.t # "Ok" THEN a
  ELSE
  recognize(a, take_while_m_n(n, n, is_utf8_cont, take_while_m_n(1, 1, lead, a)))

utf8_nonascii1(a) ==
  IF a.t # "Ok" THEN a
  ELSE
  alt(utf8_nonascii_lead(192..223, 1, a),
  alt(utf8_nonascii_lead(224..239, 2, a),
  alt(utf8_nonascii_lead(240..247, 3, a),
  alt(utf8_nonascii_lead(248..251, 4, a),
      utf8_nonascii_lead({252, 253}, 5, a)))))

utf8_char1(a) ==
  IF a.t # "Ok" THEN a
  ELSE
  alt(take_while_m_n(1, 1, is_utf8_ascii, a), utf8_nonascii1(a))

quoted_pair(a) ==
  IF a.t # "Ok" THEN a
  ELSE
  recognize(a, take_while_m_n(1, 1, is_quotable_character, tag(<<92>>, a)))  \* '\\'

\* alt((linear_whitespace, quoted_text_char, utf8_nonascii1)) inside many0:
\* a run of quoted_text_char bytes is taken in one iteration
quoted_text(a) ==
  IF a.t # "Ok" THEN a
  ELSE
  alt(linear_whitespace(a),
  alt(take_while1(is_quoted_text_char, a),
      utf8_nonascii1(a)))

\* many0(alt((quoted_text, quoted_pair)))
RECURSIVE quoted_string_body(_)
quoted_string_body(a) ==
  IF a.t # "Ok" THEN a
  ELSE
  LET loop(r) == many0(a, r, quoted_string_body(r))
  IN loop(alt(quoted_text(a), quoted_pair(a)))

quoted_string(a) ==
  IF a.t # "Ok" THEN a
  ELSE
  recognize(a, tag(<<34>>, quoted_string_body(tag(<<34>>, separator_whitespace(a)))))  \* '\"' '\"'

escaped(a) ==
  IF a.t # "Ok" THEN a
  ELSE
  recognize(a, take_while_m_n(2, 2, is_hex_digit, tag(<<37>>, a)))  \* '%'

\* alt((unreserved, escaped, is_a(USER_RESERVED_CHARS))) inside many1: the
\* bytes that successive iterations take with unreserved and is_a are taken
\* here as one run, the span that many1 recognizes is the same
user_char(a) ==
  IF a.t # "Ok" THEN a
  ELSE
  alt(take_while1(is_unreserved \cup Chars(<<38, 61, 43, 36, 44, 59, 63, 47>>), a), escaped(a))  \* '&=+$,;?/'

RECURSIVE user_chars(_)
user_chars(a) ==
  IF a.t # "Ok" THEN a
  ELSE
  LET loop(r) == many0(a, r, user_chars(r))
  IN loop(user_char(a))

\* tokens::user: many1 of the user characters
user(a) ==
  IF a.t # "Ok" THEN a
  ELSE
  LET first(r) == many1(r, user_chars(r))
  IN recognize(a, first(user_char(a)))

\* many0(alt((unreserved, escaped, is_a(PASSWORD_CHARS)))), a run of single
\* bytes taken in one iteration
RECURSIVE password_chars(_)
password_chars(a) ==
  IF a.t # "Ok" THEN a
  ELSE
  LET loop(r) == many0(a, r, password_chars(r))
  IN loop(alt(take_while1(is_unreserved \cup Chars(<<38, 61, 43, 36, 44>>), a), escaped(a)))  \* '&=+$,'

password(a) ==
  IF a.t # "Ok" THEN a
  ELSE
  recognize(a, password_chars(a))

\* take_while, not take_while1: a word may be empty
word(a) ==
  IF a.t # "Ok" THEN a
  ELSE
  take_while(is_word, a)

star(a) ==
  IF a.t # "Ok" THEN a
  ELSE
  SWS_char_SWS(42, a)

right_angle_quote(a) ==
  IF a.t # "Ok" THEN a
  ELSE
  recognize(a, separator_whitespace(tag(<<62>>, a)))  \* '>'

left_angle_quote(a) ==
  IF a.t # "Ok" THEN a
  ELSE
  recognize(a, separator_whitespace(tag(<<60>>, a)))  \* '<'

\* many0(linear_whitespace)
RECURSIVE linear_whitespaces(_)
linear_whitespaces(a) ==
  IF a.t # "Ok" THEN a
  ELSE
  LET loop(r) == many0(a, r, linear_whitespaces(r))
  IN loop(linear_whitespace(a))

\* utf8_char1 as utf8_trim repeats it: the bytes that successive iterations
\* take with utf8_ascii1 are taken as one run, the span is the same
utf8_chars(a) ==
  IF a.t # "Ok" THEN a
  ELSE
  alt(take_while1(is_utf8_ascii, a), utf8_nonascii1(a))

\* many0(pair(many0(linear_whitespace), utf8_char1))
RECURSIVE utf8_trim_more(_)
utf8_trim_more(a) ==
  IF a.t # "Ok" THEN a
  ELSE
  LET loop(r) == many0(a, r, utf8_trim_more(r))
  IN loop(utf8_chars(linear_whitespaces(a)))

\* recognize(pair(utf8_char1, many0(pair(many0(linear_whitespace), utf8_char1))))
utf8_trim(a) ==
  IF a.t # "Ok" THEN a
  ELSE
  recognize(a, utf8_trim_more(utf8_chars(a)))

is_comment_char == (33..39) \cup (42..91) \cup (93..126)

left_parenthesis(a) ==
  IF a.t # "Ok" THEN a
  ELSE
  SWS_char_SWS(40, a)

right_parenthesis(a) ==
  IF a.t # "Ok" THEN a
  ELSE
  SWS_char_SWS(41, a)

\* alt((comment_char, utf8_nonascii1, linear_whitespace))
comment_text(a) ==
  IF a.t # "Ok" THEN a
  ELSE
  alt(take_while_m_n(1, 1, is_comment_char, a),
  alt(utf8_nonascii1(a),
      linear_whitespace(a)))

\* the greatest number of a non-empty set of numbers
Greatest(S) == CHOOSE x \in S : \A y \in S : y <= x

\* comment calls itself through many0(alt((comment_text, comment,
\* quoted_pair))).  comment_nest(a, n) is the call of comment that is n levels
\* deep, the outermost one being level 1; its value is the deepest level
\* at which a comment was read inside it, itself included.
RECURSIVE comment_items(_, _)
RECURSIVE comment_nest_unclosed(_, _)
RECURSIVE comment_nest(_, _)

\* many0(alt((comment_text, comment, quoted_pair))) at level n: the values
\* are the levels the elements reach
comment_items(a, n) ==
  IF a.t # "Ok" THEN a
  ELSE
  LET loop(r) == many0(a, r, comment_items(r, n))
  IN loop(alts(<< map(comment_text(a), n),
                  comment_nest(a, n + 1),
                  map(quoted_pair(a), n) >>))

\* a variant of comment that asks for no closing parenthesis
comment_nest_unclosed(a, n) ==
  IF a.t # "Ok" THEN a
  ELSE
  and_then(comment_items(left_parenthesis(a), n), LAMBDA items :
    map(items, Greatest({n} \cup {items.val[k] : k \in DOMAIN items.val})))

comment_nest(a, n) ==
  IF a.t # "Ok" THEN a
  ELSE
  and_then(comment_items(left_parenthesis(a), n), LAMBDA items :
    map(right_parenthesis(items),
        Greatest({n} \cup {items.val[k] : k \in DOMAIN items.val})))

\* recognize(tuple((left_parenthesis, many0(...), right_parenthesis)))
comment(a) ==
  IF a.t # "Ok" THEN a
  ELSE
  recognize(a, comment_nest(a, 1))

---------------------------------------------------------------------------
(* parser/mod.rs and common.rs                                             *)

I32_MAX == 2147483647

\* atoi::atoi::<i32> on a run of digits: checked multiply-and-add from the
\* left; None as soon as the next step would exceed i32::MAX
RECURSIVE atoi(_, _)
atoi(acc, digits) ==
  IF digits = <<>> THEN Some(acc)
  ELSE LET d == digits[1] - 48 IN
       IF acc > (I32_MAX - d) \div 10 THEN None
       ELSE atoi(acc * 10 + d, Tail(digits))

\* a variant of integer whose overflow is a recoverable Error
integer_recoverable(a) ==
  IF a.t # "Ok" THEN a
  ELSE
  LET to_i32(ds, n) ==
        IF n = None THEN Error("InvalidIntegerError") ELSE Ok(ds.rest, n[1])
      convert(ds) == IF ds.t # "Ok" THEN ds ELSE to_i32(ds, atoi(0, ds.val))
  IN convert(take_while1(is_digit, a))

\* digit1, then atoi on the digits
integer(a) ==
  IF a.t # "Ok" THEN a
  ELSE
  LET to_i32(ds, n) ==
        IF n = None THEN Failure("InvalidIntegerError") ELSE Ok(ds.rest, n[1])
      convert(ds) == IF ds.t # "Ok" THEN ds ELSE to_i32(ds, atoi(0, ds.val))
  IN convert(take_while1(is_digit, a))

\* a variant of ttl whose range violation is a recoverable Error
ttl_recoverable(a) ==
  IF a.t # "Ok" THEN a
  ELSE
  LET in_range(ds, n) ==
        IF n.t # "Ok" THEN n
        ELSE IF n.val < 0 \/ n.val > 255 THEN Error("InvalidTTLValue")
        ELSE Ok(ds.rest, n.val)
      convert(ds) == IF ds.t # "Ok" THEN ds ELSE in_range(ds, integer(Start(ds.val)))
  IN convert(take_while_m_n(1, 3, is_digit, a))

\* one to three digits, integer on those digits, then the range check
ttl(a) ==
  IF a.t # "Ok" THEN a
  ELSE
  LET in_range(ds, n) ==
        IF n.t # "Ok" THEN n
        ELSE IF n.val < 0 \/ n.val > 255 THEN Failure("InvalidTTLValue")
        ELSE Ok(ds.rest, n.val)
      convert(ds) == IF ds.t # "Ok" THEN ds ELSE in_range(ds, integer(Start(ds.val)))
  IN convert(take_while_m_n(1, 3, is_digit, a))

\* recognize(many1(alphanumeric_hyphen))
label(a) ==
  IF a.t # "Ok" THEN a
  ELSE
  take_while1(is_alphanumeric_hyphen, a)

\* a variant of top_label that does not ask for a leading letter
top_label_any_start(a) ==
  IF a.t # "Ok" THEN a
  ELSE
  LET check(l) ==
        IF l.t # "Ok" THEN l
        ELSE IF l.val[Len(l.val)] = 45 THEN Error("InvalidDomainPart")
        ELSE l
  IN check(label(a))

top_label(a) ==
  IF a.t # "Ok" THEN a
  ELSE
  LET check(l) ==
        IF l.t # "Ok" THEN l
        ELSE IF l.val[Len(l.val)] = 45 \/ l.val[1] \notin is_alphabetic
        THEN Error("InvalidDomainPart")
        ELSE l
  IN check(label(a))

\* a variant of domain_label without the hyphen check
domain_label_unchecked(a) ==
  IF a.t # "Ok" THEN a
  ELSE
  label(a)

domain_label(a) ==
  IF a.t # "Ok" THEN a
  ELSE
  LET check(l) ==
        IF l.t # "Ok" THEN l
        ELSE IF l.val[1] = 45 \/ l.val[Len(l.val)] = 45
        THEN Error("InvalidDomainPart")
        ELSE l
  IN check(label(a))

\* many0(pair(domain_label, tag(".")))
RECURSIVE domain_labels(_)
domain_labels(a) ==
  IF a.t # "Ok" THEN a
  ELSE
  LET loop(r) == many0(a, r, domain_labels(r))
  IN loop(tag(<<46>>, domain_label(a)))  \* '.'

\* slice::split: the pieces of s between occurrences of byte c
RECURSIVE split(_, _)
split(s, c) ==
  LET cut(k) ==
        IF k = Len(s) THEN <<s>>
        ELSE <<Take(s, k)>> \o split(Drop(s, k + 1), c)
  IN cut(PrefixLen((0..255) \ {c}, Len(s), s))

hostname(a) ==
  IF a.t # "Ok" THEN a
  ELSE
  LET with_top == recognize(a, top_label(domain_labels(a)))
      first(r) == many1(r, domain_labels(r))
      fqdn == recognize(a, first(tag(<<46>>, domain_label(a))))  \* '.'
      top_of(parts) == parts[Len(parts) - 1]
      check(h) ==
        IF h.t # "Ok" THEN h
        ELSE IF h.val[Len(h.val)] = 46
        THEN IF top_label(Start(top_of(split(h.val, 46)))).t = "Ok" THEN h
             ELSE Error("InvalidHostname")
        ELSE h
  IN check(alt(with_top, fqdn))

\* a variant of ipv4_address whose groups are octets (0..255)
ipv4_address_octets(a) ==
  IF a.t # "Ok" THEN a
  ELSE
  LET in_range(ds) ==
        IF ds.t # "Ok" THEN ds
        ELSE IF atoi(0, ds.val)[1] > 255 THEN Error("Verify")
        ELSE ds
      octet(b) == in_range(take_while_m_n(1, 3, is_digit, b))
  IN recognize(a, octet(tag(<<46>>, octet(tag(<<46>>, octet(tag(<<46>>, octet(a))))))))  \* '.' '.' '.'

ipv4_address(a) ==
  IF a.t # "Ok" THEN a
  ELSE
  recognize(a,
    take_while_m_n(1, 3, is_digit, tag(<<46>>,  \* '.'
    take_while_m_n(1, 3, is_digit, tag(<<46>>,  \* '.'
    take_while_m_n(1, 3, is_digit, tag(<<46>>,  \* '.'
    take_while_m_n(1, 3, is_digit, a))))))))

port(a) ==
  IF a.t # "Ok" THEN a
  ELSE
  integer(a)

hex4(a) ==
  IF a.t # "Ok" THEN a
  ELSE
  take_while_m_n(1, 4, is_hex_digit, a)

\* many0(pair(tag(":"), hex4))
RECURSIVE hexseq_tail(_)
hexseq_tail(a) ==
  IF a.t # "Ok" THEN a
  ELSE
  LET loop(r) == many0(a, r, hexseq_tail(r))
  IN loop(hex4(tag(<<58>>, a)))  \* ':'

hexseq(a) ==
  IF a.t # "Ok" THEN a
  ELSE
  recognize(a, hexseq_tail(hex4(a)))

hexpart(a) ==
  IF a.t # "Ok" THEN a
  ELSE
  LET opt_hexseq(b) == opt(b, hexseq(b))
  IN alt(recognize(a, opt_hexseq(tag(<<58, 58>>, hexseq(a)))),  \* '::'
     alt(recognize(a, opt_hexseq(tag(<<58, 58>>, a))),  \* '::'
         hexseq(a)))

ipv6_address(a) ==
  IF a.t # "Ok" THEN a
  ELSE
  recognize(a, and_then(hexpart(a), LAMBDA b : opt(b, ipv4_address(tag(<<58>>, b)))))  \* ':'

ipv6_reference(a) ==
  IF a.t # "Ok" THEN a
  ELSE
  recognize(a, tag(<<93>>, ipv6_address(tag(<<91>>, a))))  \* ']' '['

\* a variant of host in which a name that hostname rejects ends the alternation
host_committed(a) ==
  IF a.t # "Ok" THEN a
  ELSE
  and_then(hostname(a), LAMBDA h : IF h.t = "Error" THEN Failure(h.kind) ELSE h)

host(a) ==
  IF a.t # "Ok" THEN a
  ELSE
  alt(hostname(a), alt(ipv4_address(a), ipv6_reference(a)))

\* the value is the pair (host, Option<port>)
host_port(a) ==
  IF a.t # "Ok" THEN a
  ELSE
  and_then(host(a), LAMBDA h :
  and_then(opt(h, port(tag(<<58>>, h))), LAMBDA p :  \* ':'
    IF p.t = "Ok" THEN Ok(p.rest, <<h.val, p.val>>) ELSE p))

\* std::str::from_utf8 accepts exactly well-formed UTF-8; a run of ASCII
\* bytes is passed over in one step
RECURSIVE is_utf8(_)
is_utf8(s) ==
  LET cont(k) == Len(s) >= k /\ s[k] \in 128..191
      second(lo, hi) == Len(s) >= 2 /\ s[2] \in lo..hi
  IN IF s = <<>> THEN TRUE
     ELSE IF s[1] <= 127 THEN is_utf8(Drop(s, PrefixLen(0..127, Len(s), s)))
     ELSE IF s[1] \in 194..223 THEN cont(2) /\ is_utf8(Drop(s, 2))
     ELSE IF s[1] = 224 THEN second(160, 191) /\ cont(3) /\ is_utf8(Drop(s, 3))
     ELSE IF s[1] \in (225..236) \cup {238, 239}
          THEN cont(2) /\ cont(3) /\ is_utf8(Drop(s, 3))
     ELSE IF s[1] = 237 THEN second(128, 159) /\ cont(3) /\ is_utf8(Drop(s, 3))
     ELSE IF s[1] = 240
          THEN second(144, 191) /\ cont(3) /\ cont(4) /\ is_utf8(Drop(s, 4))
     ELSE IF s[1] \in 241..243
          THEN cont(2) /\ cont(3) /\ cont(4) /\ is_utf8(Drop(s, 4))
     ELSE IF s[1] = 244
          THEN second(128, 143) /\ cont(3) /\ cont(4) /\ is_utf8(Drop(s, 4))
     ELSE FALSE


\* std::str::from_utf8(span).map_err(|err| nom::Err::Failure(err.into()))?
from_utf8(r) ==
  IF r.t = "Ok" /\ ~is_utf8(r.val) THEN Failure("Utf8Error") ELSE r

\* wraps the value of a successful result in an enum variant
variant(name, r) == IF r.t = "Ok" THEN Ok(r.rest, <<name, r.val>>) ELSE r

transport(a) ==
  IF a.t # "Ok" THEN a
  ELSE
  alt(map(tag_no_case(<<117, 100, 112>>, a), <<"UDP">>),  \* 'udp'
  alt(map(tag_no_case(<<116, 99, 112>>, a), <<"TCP">>),  \* 'tcp'
  alt(map(tag_no_case(<<115, 99, 116, 112>>, a), <<"SCTP">>),  \* 'sctp'
  alt(map(tag_no_case(<<84, 76, 83>>, a), <<"TLS">>),  \* 'TLS'
      variant("Extension", token_str(a))))))

uri_parameter_transport(a) ==
  IF a.t # "Ok" THEN a
  ELSE
  variant("Transport", transport(tag_no_case(<<116, 114, 97, 110, 115, 112, 111, 114, 116, 61>>, a)))  \* 'transport='

\* common::user: phone, ip or any other token
user_param(a) ==
  IF a.t # "Ok" THEN a
  ELSE
  alt(map(tag_no_case(<<112, 104, 111, 110, 101>>, a), <<"Phone">>),  \* 'phone'
  alt(map(tag_no_case(<<105, 112>>, a), <<"IP">>),  \* 'ip'
      variant("Other", token_str(a))))

uri_parameter_user(a) ==
  IF a.t # "Ok" THEN a
  ELSE
  variant("User", user_param(tag_no_case(<<117, 115, 101, 114, 61>>, a)))  \* 'user='

method(a) ==
  IF a.t # "Ok" THEN a
  ELSE
  alt(map(tag(<<73, 78, 86, 73, 84, 69>>, a), <<"Invite">>),  \* 'INVITE'
  alt(map(tag(<<65, 67, 75>>, a), <<"Ack">>),  \* 'ACK'
  alt(map(tag(<<79, 80, 84, 73, 79, 78, 83>>, a), <<"Options">>),  \* 'OPTIONS'
  alt(map(tag(<<66, 89, 69>>, a), <<"Bye">>),  \* 'BYE'
  alt(map(tag(<<67, 65, 78, 67, 69, 76>>, a), <<"Cancel">>),  \* 'CANCEL'
  alt(map(tag(<<82, 69, 71, 73, 83, 84, 69, 82>>, a), <<"Register">>),  \* 'REGISTER'
      variant("Extension", token_str(a))))))))

uri_parameter_method(a) ==
  IF a.t # "Ok" THEN a
  ELSE
  variant("Method", method(tag_no_case(<<109, 101, 116, 104, 111, 100, 61>>, a)))  \* 'method='

uri_parameter_ttl(a) ==
  IF a.t # "Ok" THEN a
  ELSE
  variant("TTL", ttl(tag_no_case(<<116, 116, 108, 61>>, a)))  \* 'ttl='

uri_parameter_maddr(a) ==
  IF a.t # "Ok" THEN a
  ELSE
  variant("MAddr", from_utf8(host(tag_no_case(<<109, 97, 100, 100, 114, 61>>, a))))  \* 'maddr='

uri_parameter_lr(a) ==
  IF a.t # "Ok" THEN a
  ELSE
  map(tag_no_case(<<108, 114>>, a), <<"LR">>)  \* 'lr'

uri_parameter_other(a) ==
  IF a.t # "Ok" THEN a
  ELSE
  and_then(take_while1(is_param_char, a), LAMBDA name :
  and_then(opt(name, take_while1(is_param_char, tag(<<61>>, name))), LAMBDA value :  \* '='
    IF value.t # "Ok" THEN value
    ELSE IF ~is_utf8(name.val) \/ (value.val # None /\ ~is_utf8(value.val[1]))
    THEN Failure("Utf8Error")
    ELSE Ok(value.rest, <<"Other", name.val, value.val>>)))

uri_parameter(a) ==
  IF a.t # "Ok" THEN a
  ELSE
  alt(uri_parameter_transport(a),
  alt(uri_parameter_user(a),
  alt(uri_parameter_method(a),
  alt(uri_parameter_ttl(a),
  alt(uri_parameter_maddr(a),
  alt(uri_parameter_lr(a),
      uri_parameter_other(a)))))))

\* many0(preceded(tag(";"), uri_parameter))
RECURSIVE uri_parameters(_)
uri_parameters(a) ==
  IF a.t # "Ok" THEN a
  ELSE
  LET loop(r) == many0(a, r, uri_parameters(r))
  IN loop(uri_parameter(tag(<<59>>, a)))  \* ';'

\* a URI header name=value; the value is the pair (name, value)
header(a) ==
  IF a.t # "Ok" THEN a
  ELSE
  and_then(take_while1(is_header_char, a), LAMBDA name :
  and_then(take_while(is_header_char, tag(<<61>>, name)), LAMBDA value :  \* '='
    IF value.t # "Ok" THEN value
    ELSE IF ~is_utf8(name.val) \/ ~is_utf8(value.val) THEN Failure("Utf8Error")
    ELSE Ok(value.rest, <<name.val, value.val>>)))

\* nom's separated_list(tag("&"), header) from its second round on: `acc`
\* holds the elements so far and a is the result of the last of them
RECURSIVE headers_more(_, _)
headers_more(a, acc) ==
  and_then(tag(<<38>>, a), LAMBDA s :  \* '&'
  and_then(header(s), LAMBDA h :
    IF s.t = "Error" THEN Ok(a.rest, acc)
    ELSE IF s.t = "Failure" THEN s
    ELSE IF s.rest = a.rest THEN Error("SeparatedList")
    ELSE IF h.t = "Error" THEN Ok(a.rest, acc)
    ELSE IF h.t = "Failure" THEN h
    ELSE IF h.rest = a.rest THEN Error("SeparatedList")
    ELSE headers_more(h, Append(acc, h.val))))

\* preceded(tag("?"), separated_list(tag("&"), header))
headers(a) ==
  IF a.t # "Ok" THEN a
  ELSE
  and_then(tag(<<63>>, a), LAMBDA q :  \* '?'
  and_then(header(q), LAMBDA h :
    IF q.t # "Ok" THEN q
    ELSE IF h.t = "Error" THEN Ok(q.rest, <<>>)
    ELSE IF h.t = "Failure" THEN h
    ELSE IF h.rest = q.rest THEN Error("SeparatedList")
    ELSE headers_more(h, <<h.val>>)))

\* rfc2806 telephone-subscriber.  Both alternatives are an Error unless the
\* first byte is '+' (global) or a phone digit, DTMF digit or pause
\* character (local); inputs that start with one of those are beyond this
\* model (evaluating them stops the check).  user_info only reaches this
\* production when tokens::user failed, which of those bytes leaves '#'.
telephone_subscriber(a) ==
  IF a.t # "Ok" THEN a
  ELSE IF a.rest # <<>> /\ a.rest[1] \in {43} \cup is_digit \cup Chars(<<45, 46, 40, 41>>) \cup Chars(<<42, 35, 65, 66, 67, 68>>) \cup Chars(<<112, 119>>)  \* '-.()' '*#ABCD' 'pw'
  THEN CHOOSE r \in {} : TRUE
  ELSE Error("Alt")

user_info(a) ==
  IF a.t # "Ok" THEN a
  ELSE
  recognize(a, tag(<<64>>,  \* '@'
    and_then(alt(user(a), telephone_subscriber(a)), LAMBDA u :
      opt(u, password(tag(<<58>>, u))))))  \* ':'

\* tuple((opt(user_info), host_port, uri_parameters, headers))
sip_uri_rest(a) ==
  IF a.t # "Ok" THEN a
  ELSE
  headers(uri_parameters(host_port(opt(a, user_info(a)))))

sip_uri(a) ==
  IF a.t # "Ok" THEN a
  ELSE
  recognize(a, sip_uri_rest(tag_no_case(<<115, 105, 112, 58>>, a)))  \* 'sip:'

sips_uri(a) ==
  IF a.t # "Ok" THEN a
  ELSE
  recognize(a, sip_uri_rest(tag_no_case(<<115, 105, 112, 115, 58>>, a)))  \* 'sips:'

sip_version(a) ==
  IF a.t # "Ok" THEN a
  ELSE
  LET both(major, minor) ==
        IF minor.t # "Ok" THEN minor
        ELSE IF major.val = 2 /\ minor.val = 0 THEN Ok(minor.rest, <<"Two">>)
        ELSE Ok(minor.rest, <<"Other", major.val, minor.val>>)
      minor_of(major) == both(major, integer(tag(<<46>>, major)))  \* '.'
  IN minor_of(integer(tag_no_case(<<83, 73, 80, 47>>, a)))  \* 'SIP/'

scheme(a) ==
  IF a.t # "Ok" THEN a
  ELSE
  recognize(a, take_while(is_scheme_char, take_while1(is_alphabetic, a)))

\* hier_part = (net_path | abs_path) ["?" query]: both paths start with
\* '/', so any other input is an Error; inputs that start with '/' are
\* beyond this model (evaluating them stops the check).
hier_part(a) ==
  IF a.t # "Ok" THEN a
  ELSE IF a.rest # <<>> /\ a.rest[1] = 47 THEN CHOOSE r \in {} : TRUE
  ELSE Error("Alt")

opaque_part(a) ==
  IF a.t # "Ok" THEN a
  ELSE
  recognize(a, take_while(is_uric, take_while_m_n(1, 1, is_uric_no_slash, a)))

absolute_uri(a) ==
  IF a.t # "Ok" THEN a
  ELSE
  LET part(c) == alt(hier_part(c), opaque_part(c))
  IN recognize(a, part(tag(<<58>>, scheme(a))))  \* ':'

gen_value(a) ==
  IF a.t # "Ok" THEN a
  ELSE
  from_utf8(alt(host(a), alt(token(a), quoted_string(a))))

\* the value is the pair (name, Option<value>)
generic_param(a) ==
  IF a.t # "Ok" THEN a
  ELSE
  and_then(token_str(a), LAMBDA name :
  and_then(opt(name, gen_value(equal(name))), LAMBDA value :
    IF value.t = "Ok" THEN Ok(value.rest, <<name.val, value.val>>) ELSE value))

\* many0(preceded(comma, token_str))
RECURSIVE option_tag(_)
option_tag(a) ==
  IF a.t # "Ok" THEN a
  ELSE
  LET loop(r) == many0(a, r, option_tag(r))
  IN loop(token_str(comma(a)))

\* a variant of qvalue in which any three digits may follow "1."
qvalue_any_digits(a) ==
  IF a.t # "Ok" THEN a
  ELSE
  LET frac(b) == opt(b, take_while_m_n(0, 3, is_digit, tag(<<46>>, b)))  \* '.'
  IN alt(recognize(a, frac(tag(<<48>>, a))), recognize(a, frac(tag(<<49>>, a))))  \* '0' '1'

\* "0" ["." 0*3DIGIT] / "1" ["." 0*3("0")]; many_m_n(0, 3, tag("0")) takes
\* the bytes that take_while_m_n(0, 3, '0') takes
qvalue(a) ==
  IF a.t # "Ok" THEN a
  ELSE
  LET frac(P, b) == opt(b, take_while_m_n(0, 3, P, tag(<<46>>, b)))  \* '.'
  IN alt(recognize(a, frac(is_digit, tag(<<48>>, a))),  \* '0'
         recognize(a, frac({48}, tag(<<49>>, a))))  \* '1'

\* nom's rest: everything left
message_body(a) == IF a.t # "Ok" THEN a ELSE Ok(<<>>, a.rest)

---------------------------------------------------------------------------
(* headers/: the value of a header parser is [h |-> variant, v |-> payload] *)

\* alt((tag_no_case(n1), tag_no_case(n2), ...)): the first name that is a
\* prefix of the input, letter case ignored
RECURSIVE first_tag_no_case(_, _)
first_tag_no_case(names, a) ==
  IF a.t # "Ok" THEN a
  ELSE
  IF Len(names) = 1 THEN tag_no_case(names[1], a)
  ELSE alt(tag_no_case(Head(names), a), first_tag_no_case(Tail(names), a))

\* pair(alt((tag_no_case(name), ...)), header_colon)
header_name(names, a) ==
  IF a.t # "Ok" THEN a
  ELSE
  header_colon(first_tag_no_case(names, a))

\* A header whose value grammar is not part of this model: the name and
\* the colon are matched as the code does; a line that passes both is
\* beyond the model (evaluating it stops the check).
header_beyond_model(names, a) ==
  IF a.t # "Ok" THEN a
  ELSE
  LET stop(n) == IF n.t = "Ok" THEN CHOOSE r \in {} : TRUE ELSE n
  IN stop(header_name(names, a))

\* wraps the value of a successful result in a Header variant
Header(name, r) == IF r.t = "Ok" THEN Ok(r.rest, [h |-> name, v |-> r.val]) ELSE r

cseq(a) ==
  IF a.t # "Ok" THEN a
  ELSE
  LET both(c, m) == map(m, [h |-> "CSeq", v |-> <<c.val, m.val>>])
      method_of(c) == both(c, method(linear_whitespace(c)))
  IN method_of(integer(header_name(<<<<67, 83, 101, 113>>>>, a)))  \* 'CSeq'

expires(a) ==
  IF a.t # "Ok" THEN a
  ELSE
  Header("Expires", integer(header_name(<<<<69, 120, 112, 105, 114, 101, 115>>>>, a)))  \* 'Expires'

max_forwards(a) ==
  IF a.t # "Ok" THEN a
  ELSE
  Header("MaxForwards", integer(header_name(<<<<77, 97, 120, 45, 70, 111, 114, 119, 97, 114, 100, 115>>>>, a)))  \* 'Max-Forwards'

min_expires(a) ==
  IF a.t # "Ok" THEN a
  ELSE
  Header("MinExpires", integer(header_name(<<<<77, 105, 110, 45, 69, 120, 112, 105, 114, 101, 115>>>>, a)))  \* 'Min-Expires'

\* the payload is the digit run itself (digit1), not a number
content_length(a) ==
  IF a.t # "Ok" THEN a
  ELSE
  Header("ContentLength",
         take_while1(is_digit, header_name(<<<<67, 111, 110, 116, 101, 110, 116, 45, 76, 101, 110, 103, 116, 104>>, <<108>>>>, a)))  \* 'Content-Length' 'l'

month(a) ==
  IF a.t # "Ok" THEN a
  ELSE
  first_tag_no_case(<<<<74, 97, 110>>, <<70, 101, 98>>, <<77, 97, 114>>, <<65, 112, 114>>, <<77, 97, 121>>, <<74, 117, 110>>,  \* 'Jan' 'Feb' 'Mar' 'Apr' 'May' 'Jun'
                      <<74, 117, 108>>, <<65, 117, 103>>, <<83, 101, 112>>, <<79, 99, 116>>, <<78, 111, 118>>, <<68, 101, 99>>>>, a)  \* 'Jul' 'Aug' 'Sep' 'Oct' 'Nov' 'Dec'

wkday(a) ==
  IF a.t # "Ok" THEN a
  ELSE
  first_tag_no_case(<<<<77, 111, 110>>, <<84, 117, 101>>, <<87, 101, 100>>, <<84, 104, 117>>, <<70, 114, 105>>, <<83, 97, 116>>, <<83, 117, 110>>>>, a)  \* 'Mon' 'Tue' 'Wed' 'Thu' 'Fri' 'Sat' 'Sun'

time(a) ==
  IF a.t # "Ok" THEN a
  ELSE
  recognize(a,
    take_while_m_n(2, 2, is_digit, tag(<<58>>,  \* ':'
    take_while_m_n(2, 2, is_digit, tag(<<58>>,  \* ':'
    take_while_m_n(2, 2, is_digit, a))))))

date1(a) ==
  IF a.t # "Ok" THEN a
  ELSE
  recognize(a,
    take_while_m_n(4, 4, is_digit, tag(<<32>>,  \* ' '
    month(tag(<<32>>,  \* ' '
    take_while_m_n(2, 2, is_digit, a))))))

rfc1123_date(a) ==
  IF a.t # "Ok" THEN a
  ELSE
  from_utf8(recognize(a,
    tag_no_case(<<32, 71, 77, 84>>, time(tag(<<32>>, date1(tag(<<44, 32>>, wkday(a))))))))  \* ' GMT' ' ' ', '

date(a) ==
  IF a.t # "Ok" THEN a
  ELSE
  Header("Date", rfc1123_date(header_name(<<<<68, 97, 116, 101>>>>, a)))  \* 'Date'

\* content.rs: m_type_any, m_type_text, ... in the order alt tries them
m_type(a) ==
  IF a.t # "Ok" THEN a
  ELSE
  alts(<< map(tag_no_case(<<42>>, a), <<"Any">>),  \* '*'
          map(tag_no_case(<<116, 101, 120, 116>>, a), <<"Text">>),  \* 'text'
          map(tag_no_case(<<97, 117, 100, 105, 111>>, a), <<"Audio">>),  \* 'audio'
          map(tag_no_case(<<105, 109, 97, 103, 101>>, a), <<"Image">>),  \* 'image'
          map(tag_no_case(<<118, 105, 100, 101, 111>>, a), <<"Video">>),  \* 'video'
          map(tag_no_case(<<109, 117, 108, 116, 105, 112, 97, 114, 116>>, a), <<"Multipart">>),  \* 'multipart'
          map(tag_no_case(<<97, 112, 112, 108, 105, 99, 97, 116, 105, 111, 110>>, a), <<"Application">>),  \* 'application'
          map(tag_no_case(<<109, 101, 115, 115, 97, 103, 101>>, a), <<"Message">>),  \* 'message'
          variant("XExtension", recognize(a, token(tag_no_case(<<120, 45>>, a)))),  \* 'x-'
          variant("IETFExtension", token(a)) >>)

m_subtype(a) ==
  IF a.t # "Ok" THEN a
  ELSE
  alts(<< map(tag_no_case(<<42>>, a), <<"Any">>),  \* '*'
          variant("XExtension", recognize(a, token(tag_no_case(<<120, 45>>, a)))),  \* 'x-'
          variant("IETFExtension", token(a)),
          variant("IANAExtension", token(a)) >>)

m_parameter(a) ==
  IF a.t # "Ok" THEN a
  ELSE
  and_then(token(a), LAMBDA name :
  and_then(equal(name), LAMBDA e :
  and_then(alt(token(e), quoted_string(e)), LAMBDA value :
    map(value, [name |-> name.val, value |-> value.val]))))

\* many0(pair(semicolon, m_parameter)), the parameters kept
RECURSIVE m_parameters(_)
m_parameters(a) ==
  IF a.t # "Ok" THEN a
  ELSE
  LET loop(r) == many0(a, r, m_parameters(r))
  IN loop(m_parameter(semicolon(a)))

media_range(a) ==
  IF a.t # "Ok" THEN a
  ELSE
  and_then(m_type(a), LAMBDA t :
  and_then(m_subtype(slash(t)), LAMBDA s :
  and_then(m_parameters(s), LAMBDA ps :
    map(ps, [type |-> t.val, subtype |-> s.val, params |-> ps.val]))))

\* accept_param_q, accept_param_extension
accept_param(a) ==
  IF a.t # "Ok" THEN a
  ELSE
  alt(variant("Q", qvalue(equal(tag_no_case(<<113>>, a)))),  \* 'q'
      variant("Extension", generic_param(a)))

\* many0(pair(semicolon, accept_param)), the parameters kept
RECURSIVE accept_params(_)
accept_params(a) ==
  IF a.t # "Ok" THEN a
  ELSE
  LET loop(r) == many0(a, r, accept_params(r))
  IN loop(accept_param(semicolon(a)))

accept_range(a) ==
  IF a.t # "Ok" THEN a
  ELSE
  and_then(media_range(a), LAMBDA m :
  and_then(accept_params(m), LAMBDA ps :
    map(ps, [media |-> m.val, params |-> ps.val])))

\* pair(accept_range, many0(pair(comma, accept_range))): the first
\* accept_range (first = TRUE), then the ones that follow a comma
RECURSIVE accept_ranges(_, _)
accept_ranges(a, first) ==
  IF a.t # "Ok" THEN a
  ELSE
  and_then(accept_range(IF first THEN a ELSE comma(a)), LAMBDA r :
    IF first THEN many1(r, accept_ranges(r, FALSE))
    ELSE many0(a, r, accept_ranges(r, FALSE)))

\* the media ranges are optional: without them the list is empty
accept(a) ==
  IF a.t # "Ok" THEN a
  ELSE
  and_then(header_name(<<<<65, 99, 99, 101, 112, 116>>>>, a), LAMBDA c :  \* 'Accept'
  and_then(opt(c, accept_ranges(c, TRUE)), LAMBDA r :
    IF r.t # "Ok" THEN r
    ELSE Ok(r.rest, [h |-> "Accept",
                     v |-> IF r.val = None THEN <<>> ELSE r.val[1]])))

\* the same tuple as media_range, written flat
media_type(a) ==
  IF a.t # "Ok" THEN a
  ELSE
  media_range(a)

content_type(a) ==
  IF a.t # "Ok" THEN a
  ELSE
  Header("ContentType", media_type(header_name(<<<<67, 111, 110, 116, 101, 110, 116, 45, 84, 121, 112, 101>>, <<99>>>>, a)))  \* 'Content-Type' 'c'

\* many0(pair(comma, token)), the codings kept
RECURSIVE content_codings(_)
content_codings(a) ==
  IF a.t # "Ok" THEN a
  ELSE
  LET loop(r) == many0(a, r, content_codings(r))
  IN loop(token(comma(a)))

content_encoding(a) ==
  IF a.t # "Ok" THEN a
  ELSE
  Header("ContentEncoding",
    and_then(token(header_name(<<<<67, 111, 110, 116, 101, 110, 116, 45, 69, 110, 99, 111, 100, 105, 110, 103>>, <<101>>>>, a)), LAMBDA r :  \* 'Content-Encoding' 'e'
      many1(r, content_codings(r))))

\* call.rs
callid(a) ==
  IF a.t # "Ok" THEN a
  ELSE
  from_utf8(recognize(a,
    and_then(word(a), LAMBDA w : opt(w, word(tag(<<64>>, w))))))  \* '@'

call_id(a) ==
  IF a.t # "Ok" THEN a
  ELSE
  Header("CallID", callid(header_name(<<<<67, 97, 108, 108, 45, 73, 68>>, <<105>>>>, a)))  \* 'Call-ID' 'i'

\* headers/mod.rs: the organization is optional
organization(a) ==
  IF a.t # "Ok" THEN a
  ELSE
  and_then(header_name(<<<<79, 114, 103, 97, 110, 105, 122, 97, 116, 105, 111, 110>>>>, a), LAMBDA c :  \* 'Organization'
  and_then(opt(c, utf8_trim(c)), LAMBDA o :
    IF o.t = "Ok" /\ o.val # None /\ ~is_utf8(o.val[1])
    THEN Failure("Utf8Error")
    ELSE Header("Organization", o)))

\* a variant of subject that takes the text without from_utf8
subject_unvalidated(a) ==
  IF a.t # "Ok" THEN a
  ELSE
  and_then(header_name(<<<<83, 117, 98, 106, 101, 99, 116>>, <<115>>>>, a), LAMBDA c :  \* 'Subject' 's'
    Header("Subject", opt(c, utf8_trim(c))))

\* headers/mod.rs: the subject is optional
subject(a) ==
  IF a.t # "Ok" THEN a
  ELSE
  and_then(header_name(<<<<83, 117, 98, 106, 101, 99, 116>>, <<115>>>>, a), LAMBDA c :  \* 'Subject' 's'
  and_then(opt(c, utf8_trim(c)), LAMBDA o :
    IF o.t = "Ok" /\ o.val # None /\ ~is_utf8(o.val[1])
    THEN Failure("Utf8Error")
    ELSE Header("Subject", o)))

supported(a) ==
  IF a.t # "Ok" THEN a
  ELSE
  Header("Supported",
    and_then(token_str(header_name(<<<<83, 117, 112, 112, 111, 114, 116, 101, 100>>, <<107>>>>, a)), LAMBDA r :  \* 'Supported' 'k'
      many1(r, option_tag(r))))

\* contact.rs: contact_params_q, contact_params_expires,
\* contact_params_extension
contact_params(a) ==
  IF a.t # "Ok" THEN a
  ELSE
  alt(variant("Q", from_utf8(qvalue(equal(tag_no_case(<<113>>, a))))),  \* 'q'
  alt(variant("Expires", integer(equal(tag_no_case(<<101, 120, 112, 105, 114, 101, 115>>, a)))),  \* 'expires'
      variant("Extension", generic_param(a))))

\* many0(pair(token, linear_whitespace))
RECURSIVE display_name_words(_)
display_name_words(a) ==
  IF a.t # "Ok" THEN a
  ELSE
  LET loop(r) == many0(a, r, display_name_words(r))
  IN loop(linear_whitespace(token(a)))

\* the value is the bytes recognized: of a quoted string that is the string
\* with its quotes
display_name(a) ==
  IF a.t # "Ok" THEN a
  ELSE
  alt(recognize(a, and_then(linear_whitespace(token(a)), LAMBDA r :
                     many1(r, display_name_words(r)))),
      quoted_string(a))

\* the value is the pair (None, addr)
addr_spec(a) ==
  IF a.t # "Ok" THEN a
  ELSE
  and_then(alt(sip_uri(a), absolute_uri(a)), LAMBDA u : map(u, <<None, u.val>>))

\* the value is the pair (Option<display name>, addr)
name_addr(a) ==
  IF a.t # "Ok" THEN a
  ELSE
  and_then(opt(a, display_name(a)), LAMBDA dn :
  and_then(addr_spec(left_angle_quote(dn)), LAMBDA u :
  and_then(right_angle_quote(u), LAMBDA q :
    map(q, <<dn.val, u.val[2]>>))))

\* the end of contact_param, of from_spec and of to: n is the result of
\* alt((name_addr, addr_spec)), ps that of the many0 of parameters after it;
\* addr and name are converted to str
addr_and_params(n, ps) ==
  IF ps.t # "Ok" THEN ps
  ELSE IF ~is_utf8(n.val[2]) THEN Failure("Utf8Error")
  ELSE IF n.val[1] # None /\ ~is_utf8(n.val[1][1]) THEN Failure("Utf8Error")
  ELSE Ok(ps.rest, [name |-> n.val[1], addr |-> n.val[2], params |-> ps.val])

\* many0(preceded(semicolon, contact_params))
RECURSIVE contact_param_params(_)
contact_param_params(a) ==
  IF a.t # "Ok" THEN a
  ELSE
  LET loop(r) == many0(a, r, contact_param_params(r))
  IN loop(contact_params(semicolon(a)))

contact_param(a) ==
  IF a.t # "Ok" THEN a
  ELSE
  and_then(alt(name_addr(a), addr_spec(a)), LAMBDA n :
    addr_and_params(n, contact_param_params(n)))

\* separated_nonempty_list(comma, contact_param): the first contact_param
\* (first = TRUE), then the ones that follow a comma; comma and contact_param
\* consume at least one byte, so its checks for no progress never fire
RECURSIVE contact_param_list(_, _)
contact_param_list(a, first) ==
  IF a.t # "Ok" THEN a
  ELSE
  and_then(contact_param(IF first THEN a ELSE comma(a)), LAMBDA r :
    IF first THEN many1(r, contact_param_list(r, FALSE))
    ELSE many0(a, r, contact_param_list(r, FALSE)))

contact_specific(a) ==
  IF a.t # "Ok" THEN a
  ELSE
  variant("Specific", contact_param_list(a, TRUE))

\* alt((contact_star, contact_specific))
contact(a) ==
  IF a.t # "Ok" THEN a
  ELSE
  Header("Contact",
    and_then(header_name(<<<<67, 111, 110, 116, 97, 99, 116>>, <<109>>>>, a), LAMBDA c :  \* 'Contact' 'm'
      alt(map(star(c), <<"Any">>), contact_specific(c))))

\* from_param_tag, from_param_extension
from_param(a) ==
  IF a.t # "Ok" THEN a
  ELSE
  alt(variant("Tag", token_str(equal(tag_no_case(<<116, 97, 103>>, a)))),  \* 'tag'
      variant("Extension", generic_param(a)))

\* many0(preceded(semicolon, alt((from_param_tag, from_param_extension))))
RECURSIVE from_params(_)
from_params(a) ==
  IF a.t # "Ok" THEN a
  ELSE
  LET loop(r) == many0(a, r, from_params(r))
  IN loop(from_param(semicolon(a)))

from_spec(a) ==
  IF a.t # "Ok" THEN a
  ELSE
  and_then(alt(name_addr(a), addr_spec(a)), LAMBDA n :
    addr_and_params(n, from_params(n)))

from(a) ==
  IF a.t # "Ok" THEN a
  ELSE
  Header("From", from_spec(header_name(<<<<70, 114, 111, 109>>, <<102>>>>, a)))  \* 'From' 'f'

\* to_param_tag, to_param_extension
to_param(a) ==
  IF a.t # "Ok" THEN a
  ELSE
  alt(variant("Tag", token_str(equal(tag_no_case(<<116, 97, 103>>, a)))),  \* 'tag'
      variant("Extension", generic_param(a)))

\* many0(preceded(semicolon, to_param))
RECURSIVE to_params(_)
to_params(a) ==
  IF a.t # "Ok" THEN a
  ELSE
  LET loop(r) == many0(a, r, to_params(r))
  IN loop(to_param(semicolon(a)))

to(a) ==
  IF a.t # "Ok" THEN a
  ELSE
  Header("To",
    and_then(header_name(<<<<84, 111>>, <<116>>>>, a), LAMBDA c :  \* 'To' 't'
    and_then(alt(name_addr(c), addr_spec(c)), LAMBDA n :
      addr_and_params(n, to_params(n)))))

sent_by(a) ==
  IF a.t # "Ok" THEN a
  ELSE
  recognize(a, and_then(host(a), LAMBDA h : opt(h, port(colon(h)))))

protocol_name(a) ==
  IF a.t # "Ok" THEN a
  ELSE
  from_utf8(alt(tag_no_case(<<83, 73, 80>>, a), token(a)))  \* 'SIP'

sent_protocol(a) ==
  IF a.t # "Ok" THEN a
  ELSE
  recognize(a, transport(slash(token(slash(protocol_name(a))))))

via_ttl(a) ==
  IF a.t # "Ok" THEN a
  ELSE
  variant("Ttl", integer(equal(tag_no_case(<<116, 116, 108>>, a))))  \* 'ttl'

via_maddr(a) ==
  IF a.t # "Ok" THEN a
  ELSE
  variant("MAddr", from_utf8(host(equal(tag_no_case(<<109, 97, 100, 100, 114>>, a)))))  \* 'maddr'

via_received(a) ==
  IF a.t # "Ok" THEN a
  ELSE
  variant("Received", from_utf8(
    and_then(equal(tag_no_case(<<114, 101, 99, 101, 105, 118, 101, 100>>, a)), LAMBDA e :  \* 'received'
      alt(ipv4_address(e), ipv6_address(e)))))

via_branch(a) ==
  IF a.t # "Ok" THEN a
  ELSE
  variant("Branch", token_str(equal(tag_no_case(<<98, 114, 97, 110, 99, 104>>, a))))  \* 'branch'

via_extension(a) ==
  IF a.t # "Ok" THEN a
  ELSE
  variant("Extension", generic_param(a))

via_params(a) ==
  IF a.t # "Ok" THEN a
  ELSE
  alt(via_ttl(a),
  alt(via_maddr(a),
  alt(via_received(a),
  alt(via_branch(a),
      via_extension(a)))))

\* many0(pair(semicolon, via_params))
RECURSIVE via_parm_params(_)
via_parm_params(a) ==
  IF a.t # "Ok" THEN a
  ELSE
  LET loop(r) == many0(a, r, via_parm_params(r))
  IN loop(via_params(semicolon(a)))

via_parm(a) ==
  IF a.t # "Ok" THEN a
  ELSE
  and_then(sent_protocol(a), LAMBDA p :
  and_then(sent_by(linear_whitespace(p)), LAMBDA s :
  and_then(via_parm_params(s), LAMBDA ps :
    IF ps.t # "Ok" THEN ps
    ELSE IF ~is_utf8(p.val) \/ ~is_utf8(s.val) THEN Failure("Utf8Error")
    ELSE Ok(ps.rest, [protocol |-> p.val, sent_by |-> s.val, params |-> ps.val]))))

\* many0(pair(comma, via_parm))
RECURSIVE via_others(_)
via_others(a) ==
  IF a.t # "Ok" THEN a
  ELSE
  LET loop(r) == many0(a, r, via_others(r))
  IN loop(via_parm(comma(a)))

via(a) ==
  IF a.t # "Ok" THEN a
  ELSE
  and_then(via_parm(header_name(<<<<86, 105, 97>>, <<118>>>>, a)), LAMBDA first :  \* 'Via' 'v'
  and_then(via_others(first), LAMBDA others :
    map(others, [h |-> "Via", v |-> <<first.val>> \o others.val])))

\* many0(alt((utf8_char1, take_while(is_utf8_cont), linear_whitespace))); the
\* bytes that successive iterations take with utf8_ascii1 are taken as one run
RECURSIVE header_value_chars(_)
header_value_chars(a) ==
  IF a.t # "Ok" THEN a
  ELSE
  LET loop(r) == many0(a, r, header_value_chars(r))
  IN loop(alt(take_while1(is_utf8_ascii, a),
          alt(utf8_char1(a),
          alt(take_while(is_utf8_cont, a),
              linear_whitespace(a)))))

\* a variant of header_value that takes everything up to the end of line
header_value_to_eol(a) ==
  IF a.t # "Ok" THEN a
  ELSE
  from_utf8(take_while((0..255) \ {13, 10}, a))

header_value(a) ==
  IF a.t # "Ok" THEN a
  ELSE
  from_utf8(recognize(a, header_value_chars(a)))

extension_header(a) ==
  IF a.t # "Ok" THEN a
  ELSE
  LET both(name, value) ==
        map(value, [h |-> "Extension", v |-> <<name.val, value.val>>])
      value_of(name) == both(name, header_value(header_colon(name)))
  IN value_of(token_str(a))

\* the alternatives of message_header, in the order alt tries them
header_alternatives(a) ==
  IF a.t # "Ok" THEN a
  ELSE
  alts(<< accept(a),
          header_beyond_model(<<<<65, 99, 99, 101, 112, 116, 45, 69, 110, 99, 111, 100, 105, 110, 103>>>>, a),  \* 'Accept-Encoding'
          header_beyond_model(<<<<65, 99, 99, 101, 112, 116, 45, 76, 97, 110, 103, 117, 97, 103, 101>>>>, a),  \* 'Accept-Language'
          header_beyond_model(<<<<65, 108, 101, 114, 116, 45, 73, 110, 102, 111>>>>, a),  \* 'Alert-Info'
          header_beyond_model(<<<<65, 108, 108, 111, 119>>>>, a),  \* 'Allow'
          header_beyond_model(<<<<65, 117, 116, 104, 101, 110, 116, 105, 99, 97, 116, 105, 111, 110, 45, 73, 110, 102, 111>>>>, a),  \* 'Authentication-Info'
          header_beyond_model(<<<<65, 117, 116, 104, 111, 114, 105, 122, 97, 116, 105, 111, 110>>>>, a),  \* 'Authorization'
          call_id(a),
          header_beyond_model(<<<<67, 97, 108, 108, 45, 73, 110, 102, 111>>>>, a),  \* 'Call-Info'
          contact(a),
          header_beyond_model(<<<<67, 111, 110, 116, 101, 110, 116, 45, 68, 105, 115, 112, 111, 115, 105, 116, 105, 111, 110>>>>, a),  \* 'Content-Disposition'
          content_encoding(a),
          header_beyond_model(<<<<67, 111, 110, 116, 101, 110, 116, 45, 76, 97, 110, 103, 117, 97, 103, 101>>>>, a),  \* 'Content-Language'
          content_length(a),
          content_type(a),
          cseq(a),
          date(a),
          header_beyond_model(<<<<69, 114, 114, 111, 114, 45, 73, 110, 102, 111>>>>, a),  \* 'Error-Info'
          expires(a),
          from(a),
          via(a),
          header_beyond_model(<<<<73, 110, 45, 82, 101, 112, 108, 121, 45, 84, 111>>>>, a),  \* 'In-Reply-To'
          max_forwards(a),
          header_beyond_model(<<<<77, 73, 77, 69, 45, 86, 101, 114, 115, 105, 111, 110>>>>, a),  \* 'MIME-Version'
          min_expires(a),
          organization(a),
          header_beyond_model(<<<<80, 114, 105, 111, 114, 105, 116, 121>>>>, a),  \* 'Priority'
          header_beyond_model(<<<<80, 114, 111, 120, 121, 45, 65, 117, 116, 104, 101, 110, 116, 105, 99, 97, 116, 101>>>>, a),  \* 'Proxy-Authenticate'
          header_beyond_model(<<<<80, 114, 111, 120, 121, 45, 65, 117, 116, 104, 111, 114, 105, 122, 97, 116, 105, 111, 110>>>>, a),  \* 'Proxy-Authorization'
          header_beyond_model(<<<<80, 114, 111, 120, 121, 45, 82, 101, 113, 117, 105, 114, 101>>>>, a),  \* 'Proxy-Require'
          header_beyond_model(<<<<82, 101, 99, 111, 114, 100, 45, 82, 111, 117, 116, 101>>>>, a),  \* 'Record-Route'
          header_beyond_model(<<<<82, 101, 112, 108, 121, 45, 84, 111>>>>, a),  \* 'Reply-To'
          header_beyond_model(<<<<82, 101, 113, 117, 105, 114, 101>>>>, a),  \* 'Require'
          header_beyond_model(<<<<82, 101, 116, 114, 121, 45, 65, 102, 116, 101, 114>>>>, a),  \* 'Retry-After'
          header_beyond_model(<<<<82, 111, 117, 116, 101>>>>, a),  \* 'Route'
          header_beyond_model(<<<<83, 101, 114, 118, 101, 114>>>>, a),  \* 'Server'
          subject(a),
          supported(a),
          header_beyond_model(<<<<84, 105, 109, 101, 115, 116, 97, 109, 112>>>>, a),  \* 'Timestamp'
          to(a),
          header_beyond_model(<<<<85, 110, 115, 117, 112, 112, 111, 114, 116, 101, 100>>>>, a),  \* 'Unsupported'
          header_beyond_model(<<<<85, 115, 101, 114, 45, 65, 103, 101, 110, 116>>>>, a),  \* 'User-Agent'
          header_beyond_model(<<<<87, 97, 114, 110, 105, 110, 103>>>>, a),  \* 'Warning'
          header_beyond_model(<<<<87, 87, 87, 45, 65, 117, 116, 104, 101, 110, 116, 105, 99, 97, 116, 101>>>>, a),  \* 'WWW-Authenticate'
          extension_header(a) >>)

\* terminated(alt((...)), newline)
message_header(a) ==
  IF a.t # "Ok" THEN a
  ELSE
  and_then(header_alternatives(a), LAMBDA h : map(newline(h), h.val))

---------------------------------------------------------------------------
(* tokens.rs and headers/auth.rs: the quality of protection                *)

left_double_quote(a) ==
  IF a.t # "Ok" THEN a
  ELSE
  recognize(a, tag(<<34>>, separator_whitespace(a)))  \* '\"'

right_double_quote(a) ==
  IF a.t # "Ok" THEN a
  ELSE
  recognize(a, separator_whitespace(tag(<<34>>, a)))  \* '\"'

\* alt((qop_value_auth, qop_value_auth_int, qop_value_extension))
qop_value(a) ==
  IF a.t # "Ok" THEN a
  ELSE
  alt(map(tag_no_case(<<97, 117, 116, 104>>, a), <<"Auth">>),  \* 'auth'
  alt(map(tag_no_case(<<97, 117, 116, 104, 45, 105, 110, 116>>, a), <<"AuthInt">>),  \* 'auth-int'
      variant("Extension", token_str(a))))

message_qop(a) ==
  IF a.t # "Ok" THEN a
  ELSE
  qop_value(equal(tag_no_case(<<113, 111, 112>>, a)))  \* 'qop'

\* separated_nonempty_list(tag(","), qop_value): the first qop_value
\* (first = TRUE), then the ones that follow a ','; qop_value consumes at
\* least one byte, so its checks for no progress never fire
RECURSIVE qop_values(_, _)
qop_values(a, first) ==
  IF a.t # "Ok" THEN a
  ELSE
  and_then(qop_value(IF first THEN a ELSE tag(<<44>>, a)), LAMBDA r :  \* ','
    IF first THEN many1(r, qop_values(r, FALSE))
    ELSE many0(a, r, qop_values(r, FALSE)))

qop_options(a) ==
  IF a.t # "Ok" THEN a
  ELSE
  and_then(left_double_quote(equal(tag_no_case(<<113, 111, 112>>, a))), LAMBDA q :  \* 'qop'
  and_then(qop_values(q, TRUE), LAMBDA vs :
    map(right_double_quote(vs), vs.val)))

---------------------------------------------------------------------------
(* request.rs, response.rs and the top-level sip_message                  *)

request_uri(a) ==
  IF a.t # "Ok" THEN a
  ELSE
  alt(sip_uri(a), alt(sips_uri(a), absolute_uri(a)))

\* a variant of request_line whose errors are hard failures
request_line_committed(a) ==
  IF a.t # "Ok" THEN a
  ELSE
  and_then(method(a), LAMBDA m :
  and_then(request_uri(tag(<<32>>, m)), LAMBDA u :  \* ' '
  and_then(sip_version(tag(<<32>>, u)), LAMBDA v :  \* ' '
  and_then(newline(v), LAMBDA n :
    IF n.t = "Error" THEN Failure(n.kind)
    ELSE IF n.t # "Ok" THEN n
    ELSE IF ~is_utf8(u.val) THEN Failure("Utf8Error")
    ELSE Ok(n.rest, [method |-> m.val, uri |-> u.val, version |-> v.val])))))

request_line(a) ==
  IF a.t # "Ok" THEN a
  ELSE
  and_then(method(a), LAMBDA m :
  and_then(request_uri(tag(<<32>>, m)), LAMBDA u :  \* ' '
  and_then(sip_version(tag(<<32>>, u)), LAMBDA v :  \* ' '
  and_then(newline(v), LAMBDA n :
    IF n.t # "Ok" THEN n
    ELSE IF ~is_utf8(u.val) THEN Failure("Utf8Error")
    ELSE Ok(n.rest, [method |-> m.val, uri |-> u.val, version |-> v.val])))))

\* a variant of message_headers that keeps one header of two neighbours of
\* the same name
RECURSIVE message_headers_merged(_)
message_headers_merged(a) ==
  IF a.t # "Ok" THEN a
  ELSE
  LET merge(x) ==
        IF x.t = "Ok" /\ Len(x.val) >= 2 /\ x.val[1].h = x.val[2].h
        THEN Ok(x.rest, Tail(x.val))
        ELSE x
      loop(r) == merge(many0(a, r, message_headers_merged(r)))
  IN loop(message_header(a))

\* many0(headers::message_header)
RECURSIVE message_headers(_)
message_headers(a) ==
  IF a.t # "Ok" THEN a
  ELSE
  LET loop(r) == many0(a, r, message_headers(r))
  IN loop(message_header(a))

\* preceded(newline, opt(message_body))
body_part(a) ==
  IF a.t # "Ok" THEN a
  ELSE
  and_then(newline(a), LAMBDA n : opt(n, message_body(n)))

\* a variant of request that cuts the body to the length a Content-Length
\* header gives
request_content_length(a) ==
  IF a.t # "Ok" THEN a
  ELSE
  LET lengths(h) == { k \in 1..Len(h) : h[k].h = "ContentLength" }
      cut(body, n) == IF n # None /\ n[1] < Len(body) THEN Take(body, n[1]) ELSE body
      body_of(h, b) ==
        IF lengths(h) = {} THEN b
        ELSE Some(cut(b[1], atoi(0, h[CHOOSE k \in lengths(h) : TRUE].v)))
  IN and_then(request_line(a), LAMBDA l :
     and_then(message_headers(l), LAMBDA h :
     and_then(body_part(h), LAMBDA b :
       map(b, [t |-> "Request", request_line |-> l.val,
               headers |-> h.val, body |-> body_of(h.val, b.val)]))))

request(a) ==
  IF a.t # "Ok" THEN a
  ELSE
  and_then(request_line(a), LAMBDA l :
  and_then(message_headers(l), LAMBDA h :
  and_then(body_part(h), LAMBDA b :
    map(b, [t |-> "Request", request_line |-> l.val,
            headers |-> h.val, body |-> b.val]))))

\* alt((tag(c1), tag(c2), ...))
first_tag(tags, a) ==
  IF a.t # "Ok" THEN a
  ELSE
  alts([i \in 1..Len(tags) |-> tag(tags[i], a)])

\* a variant of status_code whose first known code has two digits
status_code_short(a) ==
  IF a.t # "Ok" THEN a
  ELSE
  alt(tag(<<49, 48>>, a), take_while_m_n(3, 3, is_digit, a))  \* '10'

status_code(a) ==
  IF a.t # "Ok" THEN a
  ELSE
  alt(first_tag(<<<<49, 48, 48>>, <<49, 56, 48>>, <<49, 56, 49>>, <<49, 56, 50>>, <<49, 56, 51>>, <<50, 48, 48>>,  \* '100' '180' '181' '182' '183' '200'
                  <<51, 48, 48>>, <<51, 48, 49>>, <<51, 48, 50>>, <<51, 48, 53>>, <<51, 56, 48>>,  \* '300' '301' '302' '305' '380'
                  <<52, 48, 48>>, <<52, 48, 49>>, <<52, 48, 50>>, <<52, 48, 51>>, <<52, 48, 52>>, <<52, 48, 53>>, <<52, 48, 54>>,  \* '400' '401' '402' '403' '404' '405' '406'
                  <<52, 48, 55>>, <<52, 48, 56>>, <<52, 49, 48>>, <<52, 49, 51>>, <<52, 49, 52>>, <<52, 49, 53>>, <<52, 49, 54>>,  \* '407' '408' '410' '413' '414' '415' '416'
                  <<52, 50, 48>>, <<52, 50, 49>>, <<52, 50, 51>>, <<52, 56, 48>>, <<52, 56, 49>>, <<52, 56, 50>>, <<52, 56, 51>>,  \* '420' '421' '423' '480' '481' '482' '483'
                  <<52, 56, 51>>, <<52, 56, 53>>, <<52, 56, 54>>, <<52, 56, 55>>, <<52, 56, 56>>, <<52, 57, 49>>, <<52, 57, 51>>,  \* '483' '485' '486' '487' '488' '491' '493'
                  <<53, 48, 48>>, <<53, 48, 49>>, <<53, 48, 50>>, <<53, 48, 51>>, <<53, 48, 52>>, <<53, 48, 53>>, <<53, 49, 51>>,  \* '500' '501' '502' '503' '504' '505' '513'
                  <<54, 48, 48>>, <<54, 48, 51>>, <<54, 48, 52>>, <<54, 48, 54>>>>, a),  \* '600' '603' '604' '606'
      take_while_m_n(3, 3, is_digit, a))

is_reason_phrase ==
  is_reserved \cup is_unreserved \cup is_utf8_nonascii \cup is_utf8_cont \cup is_space

status_line(a) ==
  IF a.t # "Ok" THEN a
  ELSE
  recognize(a,
    newline(take_while(is_reason_phrase, tag(<<32>>,  \* ' '
    status_code(tag(<<32>>,  \* ' '
    sip_version(a)))))))

response(a) ==
  IF a.t # "Ok" THEN a
  ELSE
  and_then(recognize(a, body_part(message_headers(status_line(a)))), LAMBDA r :
    map(r, [t |-> "Response", content |-> r.val]))

sip_message(a) ==
  IF a.t # "Ok" THEN a
  ELSE
  alt(request(a), response(a))

---------------------------------------------------------------------------
(* src/request.rs and src/response.rs: the entry points                    *)

\* a variant of parse_result that reports every error as UnknownError
parse_result_unknown(r) ==
  IF r.t = "Ok" THEN [t |-> "Ok", val |-> r.val]
  ELSE [t |-> "Err", kind |-> "UnknownError"]

\* the match of Request::parse and of Response::parse on the grammar's
\* result r: Ok((_, msg)) => Ok(msg), Err(Failure(err)) => Err(err),
\* Err(_) => Err(UnknownError)
parse_result(r) ==
  IF r.t = "Ok" THEN [t |-> "Ok", val |-> r.val]
  ELSE IF r.t = "Failure" THEN [t |-> "Err", kind |-> r.kind]
  ELSE [t |-> "Err", kind |-> "UnknownError"]

Request_parse(i) == parse_result(request(Start(i)))

Response_parse(i) == parse_result(response(Start(i)))

\* the loop of Request::new over the headers hs from the k-th on: found holds, for each
\* mandatory header, None or Some(value of the header seen last)
RECURSIVE new_scan(_, _, _)
new_scan(hs, k, found) ==
  IF k > Len(hs) THEN found
  ELSE LET hd == hs[k]
       IN new_scan(hs, k + 1,
            IF hd.h = "CallID" THEN [found EXCEPT !.call_id = <<hd.v>>]
            ELSE IF hd.h = "CSeq" THEN [found EXCEPT !.cseq = <<hd.v>>]
            ELSE IF hd.h = "From" THEN [found EXCEPT !.from = <<hd.v>>]
            ELSE IF hd.h = "MaxForwards" THEN [found EXCEPT !.max_forwards = <<hd.v>>]
            ELSE IF hd.h = "To" THEN [found EXCEPT !.to = <<hd.v>>]
            ELSE IF hd.h = "Via" THEN [found EXCEPT !.via = <<hd.v>>]
            ELSE found)

is_none(o) == Len(o) = 0
unwrap(o) == o[1]

InvalidRequestError(kind) == [t |-> "Err", kind |-> kind]

\* a variant of Request::new that looks for the CSeq before the Call-ID
Request_new_reordered(line, hs, body) ==
  LET found == new_scan(hs, 1,
                 [call_id |-> None, cseq |-> None, from |-> None,
                  max_forwards |-> None, to |-> None, via |-> None])
  IN IF is_none(found.cseq) THEN InvalidRequestError("MissingCSeqHeader")
     ELSE IF is_none(found.call_id) THEN InvalidRequestError("MissingCallIDHeader")
     ELSE IF is_none(found.from) THEN InvalidRequestError("MissingFromHeader")
     ELSE IF is_none(found.max_forwards) THEN InvalidRequestError("MissingMaxForwardsHeader")
     ELSE IF is_none(found.to) THEN InvalidRequestError("MissingToHeader")
     ELSE IF is_none(found.via) THEN InvalidRequestError("MissingViaHeader")
     ELSE [t |-> "Ok",
           val |-> [request_line |-> line,
                    call_id |-> unwrap(found.call_id),
                    cseq |-> unwrap(found.cseq),
                    from |-> unwrap(found.from),
                    max_forwards |-> unwrap(found.max_forwards),
                    to |-> unwrap(found.to),
                    via |-> unwrap(found.via),
                    headers |-> hs,
                    body |-> body]]

Request_new(line, hs, body) ==
  LET found == new_scan(hs, 1,
                 [call_id |-> None, cseq |-> None, from |-> None,
                  max_forwards |-> None, to |-> None, via |-> None])
  IN IF is_none(found.call_id) THEN InvalidRequestError("MissingCallIDHeader")
     ELSE IF is_none(found.cseq) THEN InvalidRequestError("MissingCSeqHeader")
     ELSE IF is_none(found.from) THEN InvalidRequestError("MissingFromHeader")
     ELSE IF is_none(found.max_forwards) THEN InvalidRequestError("MissingMaxForwardsHeader")
     ELSE IF is_none(found.to) THEN InvalidRequestError("MissingToHeader")
     ELSE IF is_none(found.via) THEN InvalidRequestError("MissingViaHeader")
     ELSE [t |-> "Ok",
           val |-> [request_line |-> line,
                    call_id |-> unwrap(found.call_id),
                    cseq |-> unwrap(found.cseq),
                    from |-> unwrap(found.from),
                    max_forwards |-> unwrap(found.max_forwards),
                    to |-> unwrap(found.to),
                    via |-> unwrap(found.via),
                    headers |-> hs,
                    body |-> body]]

---------------------------------------------------------------------------
(* The inputs the productions are applied to                               *)

MaxHostLen == 5
MaxDigits == 4

\* all sequences over S of length 0..n
SeqsUpTo(S, n) == UNION {[1..k -> S] : k \in 0..n}

CRLF == <<13, 10>>  \* '\r\n'

\* every string of at most MaxHostLen bytes over letters, digits, '-', '.'
\* and one byte that belongs to no label
HostAlphabet == Chars(<<97, 49, 45, 46, 59>>)  \* 'a1-.;'
HostnameInputs == SeqsUpTo(HostAlphabet, MaxHostLen)

\* digit strings: every short one over a small alphabet, and the ones
\* around the limits of ttl and of i32
DigitAlphabet == Chars(<<48, 50, 53>>)  \* '025'
BoundaryNumbers ==
  { <<49>>, <<50, 53, 53>>, <<50, 53, 54>>, <<57, 57, 57>>, <<54, 53, 53, 51, 53>>,  \* '1' '255' '256' '999' '65535'
    <<50, 49, 52, 55, 52, 56, 51, 54, 52, 54>>, <<50, 49, 52, 55, 52, 56, 51, 54, 52, 55>>, <<50, 49, 52, 55, 52, 56, 51, 54, 52, 56>>, <<50, 49, 52, 55, 52, 56, 51, 54, 53, 48>>,  \* '2147483646' '2147483647' '2147483648' '2147483650'
    <<48, 50, 49, 52, 55, 52, 56, 51, 54, 52, 55>>, <<48, 48, 50, 49, 52, 55, 52, 56, 51, 54, 52, 56>>, <<50, 49, 52, 55, 52, 56, 51, 54, 53, 55>>, <<51, 48, 48, 48, 48, 48, 48, 48, 48, 48>>,  \* '02147483647' '002147483648' '2147483657' '3000000000'
    <<50, 49, 52, 55, 52, 56, 51, 54, 52, 55, 48>>, <<57, 57, 57, 57, 57, 57, 57, 57, 57, 57>>, <<57, 57, 57, 57, 57, 57, 57, 57, 57, 57, 57, 57, 57, 57, 57, 57, 57, 57, 57, 57>> }  \* '21474836470' '9999999999' '99999999999999999999'
NumStrings == (SeqsUpTo(DigitAlphabet, MaxDigits) \ {<<>>}) \cup BoundaryNumbers

NumberTails == { <<>>, <<59>>, <<32, 120>> }  \* ';' ' x'
IntegerInputs ==
  { n \o t : n \in NumStrings, t \in NumberTails } \cup { <<>>, <<120, 49>>, <<45, 49>> }  \* 'x1' '-1'
TtlInputs == IntegerInputs

\* URI parameter lists: a ttl parameter with every number, alone and beside
\* other parameters
TtlParams == { <<59, 116, 116, 108, 61>> \o n : n \in NumStrings }  \* ';ttl='
OtherParams ==
  { <<>>, <<59, 108, 114>>, <<59, 116, 114, 97, 110, 115, 112, 111, 114, 116, 61, 117, 100, 112>>, <<59, 102, 111, 111, 61, 98, 97, 114>>, <<59, 116, 116, 108>>, <<59, 116, 116, 108, 61, 120>>,  \* ';lr' ';transport=udp' ';foo=bar' ';ttl' ';ttl=x'
    <<59, 109, 101, 116, 104, 111, 100, 61, 73, 78, 86, 73, 84, 69>>, <<59, 117, 115, 101, 114, 61, 112, 104, 111, 110, 101>> }  \* ';method=INVITE' ';user=phone'
ParamStrings ==
  TtlParams \cup OtherParams
    \cup { <<59, 108, 114>> \o p : p \in TtlParams } \cup { p \o <<59, 108, 114>> : p \in TtlParams }  \* ';lr' ';lr'
UriTails == { <<>>, <<32>> }  \* ' '
UriParametersInputs == { p \o t : p \in ParamStrings, t \in UriTails \cup {<<63, 98, 61, 99>>} }  \* '?b=c'
Uri(p) == <<115, 105, 112, 58, 97>> \o p \o <<63, 98, 61, 99>>  \* 'sip:a' '?b=c'
\* SIP URIs with and without user-info, port, parameters and headers
OptionalPartUris ==
  { <<115, 105, 112, 58>> \o u \o h \o p \o q :  \* 'sip:'
      u \in { <<>>, <<98, 111, 98, 64>>, <<98, 111, 98, 58, 112, 119, 64>> },  \* 'bob@' 'bob:pw@'
      h \in { <<97>>, <<98, 105, 108, 111, 120, 105, 46, 101, 120, 97, 109, 112, 108, 101, 46, 99, 111, 109>>, <<97, 58, 53, 48, 54, 48>> },  \* 'a' 'biloxi.example.com' 'a:5060'
      p \in { <<>>, <<59, 108, 114>>, <<59, 116, 114, 97, 110, 115, 112, 111, 114, 116, 61, 117, 100, 112, 59, 108, 114>> },  \* ';lr' ';transport=udp;lr'
      q \in { <<>>, <<63, 98, 61, 99>>, <<63, 98, 61, 99, 38, 100, 61, 101>> } }  \* '?b=c' '?b=c&d=e'
UriInputs ==
  { Uri(p) \o t : p \in ParamStrings, t \in UriTails }
    \cup OptionalPartUris
    \cup { <<115, 105, 112, 58, 98, 111, 98, 64, 98, 105, 108, 111, 120, 105, 46, 101, 120, 97, 109, 112, 108, 101, 46, 99, 111, 109>>, <<115, 105, 112, 115, 58, 97, 63, 98, 61, 99>>, <<109, 97, 105, 108, 116, 111, 58, 98, 111, 98>>, <<98, 111, 98>> }  \* 'sip:bob@biloxi.example.com' 'sips:a?b=c' 'mailto:bob' 'bob'

\* inputs of ipv4_address: every string over a digit, the dot and a letter,
\* and addresses with longer groups
MaxAddrLen == 8
AddrAlphabet == Chars(<<49, 46, 120>>)  \* '1.x'
Ipv4Inputs ==
  SeqsUpTo(AddrAlphabet, MaxAddrLen) \cup
  { <<57, 57, 57, 46, 57, 57, 57, 46, 57, 57, 57, 46, 57, 57, 57>>, <<50, 53, 53, 46, 50, 53, 53, 46, 50, 53, 53, 46, 50, 53, 53>>, <<49, 49, 49, 49, 46, 49, 46, 49, 46, 49>>, <<49, 46, 50, 46, 51, 46, 52, 53, 54, 55>>,  \* '999.999.999.999' '255.255.255.255' '1111.1.1.1' '1.2.3.4567'
    <<49, 46, 50, 46, 51, 46, 52, 46, 53>>, <<49, 50, 51, 46, 52, 53, 46, 54, 46, 55, 56, 57, 48>>, <<49, 46, 50, 50, 46, 51, 51, 51, 46, 52, 52, 52, 52>>, <<49, 46, 50, 50, 50, 50, 46, 51, 46, 52>>,  \* '1.2.3.4.5' '123.45.6.7890' '1.22.333.4444' '1.2222.3.4'
    <<49, 57, 50, 46, 49, 54, 56, 46, 48, 46, 49, 58, 53, 48, 54, 48>>, <<49, 48, 46, 48, 46, 48, 46, 50, 53, 54, 59, 108, 114>>, <<97, 46, 98, 46, 99, 46, 100>>, <<49, 46, 50, 46, 51, 46>>, <<50, 53, 54, 46, 49, 46, 49, 46, 49, 32>> }  \* '192.168.0.1:5060' '10.0.0.256;lr' 'a.b.c.d' '1.2.3.' '256.1.1.1 '

\* request lines: a method token, a request-URI, the version
KnownMethods ==
  { <<73, 78, 86, 73, 84, 69>>, <<65, 67, 75>>, <<79, 80, 84, 73, 79, 78, 83>>, <<66, 89, 69>>, <<67, 65, 78, 67, 69, 76>>, <<82, 69, 71, 73, 83, 84, 69, 82>> }  \* 'INVITE' 'ACK' 'OPTIONS' 'BYE' 'CANCEL' 'REGISTER'
MethodTokens ==
  KnownMethods \cup
  { <<83, 85, 66, 83, 67, 82, 73, 66, 69>>, <<78, 79, 84, 73, 70, 89>>, <<80, 85, 66, 76, 73, 83, 72>>, <<77, 69, 83, 83, 65, 71, 69>>, <<73, 78, 70, 79>>, <<88>>, <<105, 110, 118, 105, 116, 101>>,  \* 'SUBSCRIBE' 'NOTIFY' 'PUBLISH' 'MESSAGE' 'INFO' 'X' 'invite'
    <<73, 78, 86, 73, 84>>, <<73>>, <<73, 78, 86, 73, 84, 69, 88>>, <<65, 67, 75, 78, 79, 87, 76, 69, 68, 71, 69>>, <<66, 89, 69, 66, 89, 69>>, <<79, 80, 84, 73, 79, 78, 83, 50>>,  \* 'INVIT' 'I' 'INVITEX' 'ACKNOWLEDGE' 'BYEBYE' 'OPTIONS2'
    <<67, 65, 78, 67, 69, 76, 76, 69, 68>>, <<82, 69, 71, 73, 83, 84, 69, 82, 69, 68>>, <<82, 69, 45, 73, 78, 86, 73, 84, 69>> }  \* 'CANCELLED' 'REGISTERED' 'RE-INVITE'
RequestUris == { <<115, 105, 112, 58, 97, 63, 98, 61, 99>>, <<115, 105, 112, 58, 98, 111, 98, 64, 98, 105, 108, 111, 120, 105, 46, 101, 120, 97, 109, 112, 108, 101, 46, 99, 111, 109>> }  \* 'sip:a?b=c' 'sip:bob@biloxi.example.com'
RequestLineOf(m, u) == m \o <<32>> \o u \o <<32, 83, 73, 80, 47, 50, 46, 48>> \o CRLF  \* ' ' ' SIP/2.0'
\* the Method variant that stands for a method token
MethodVariant(m) ==
  IF m = <<73, 78, 86, 73, 84, 69>> THEN <<"Invite">>  \* 'INVITE'
  ELSE IF m = <<65, 67, 75>> THEN <<"Ack">>  \* 'ACK'
  ELSE IF m = <<79, 80, 84, 73, 79, 78, 83>> THEN <<"Options">>  \* 'OPTIONS'
  ELSE IF m = <<66, 89, 69>> THEN <<"Bye">>  \* 'BYE'
  ELSE IF m = <<67, 65, 78, 67, 69, 76>> THEN <<"Cancel">>  \* 'CANCEL'
  ELSE IF m = <<82, 69, 71, 73, 83, 84, 69, 82>> THEN <<"Register">>  \* 'REGISTER'
  ELSE <<"Extension", m>>
\* request-URIs: SIP and SIPS URIs with and without a header list, another scheme
RequestLineUris ==
  RequestUris \cup { <<115, 105, 112, 115, 58, 97, 63, 98, 61, 99>>, <<115, 105, 112, 58, 97, 59, 108, 114>>, <<115, 105, 112, 58, 37, 52, 49, 108, 105, 99, 101, 64, 97>>, <<109, 97, 105, 108, 116, 111, 58, 98, 111, 98>> }  \* 'sips:a?b=c' 'sip:a;lr' 'sip:%41lice@a' 'mailto:bob'
\* SIP-version texts, each with the Version it stands for
Versions ==
  { [text |-> <<83, 73, 80, 47, 50, 46, 48>>, version |-> <<"Two">>],  \* 'SIP/2.0'
    [text |-> <<83, 73, 80, 47, 48, 50, 46, 48, 48>>, version |-> <<"Two">>],  \* 'SIP/02.00'
    [text |-> <<83, 73, 80, 47, 50, 46, 49>>, version |-> <<"Other", 2, 1>>],  \* 'SIP/2.1'
    [text |-> <<83, 73, 80, 47, 51, 46, 48>>, version |-> <<"Other", 3, 0>>],  \* 'SIP/3.0'
    [text |-> <<83, 73, 80, 47, 49, 46, 49, 50>>, version |-> <<"Other", 1, 12>>] }  \* 'SIP/1.12'
RequestLineWith(m, u, v) == m \o <<32>> \o u \o <<32>> \o v \o CRLF  \* ' ' ' '
\* a space or the CRLF is missing
MalformedRequestLines ==
  { <<73, 78, 86, 73, 84, 69, 115, 105, 112, 58, 97, 63, 98, 61, 99, 32, 83, 73, 80, 47, 50, 46, 48, 13, 10>>, <<73, 78, 86, 73, 84, 69, 32, 115, 105, 112, 58, 97, 63, 98, 61, 99, 83, 73, 80, 47, 50, 46, 48, 13, 10>>,  \* 'INVITEsip:a?b=c SIP/2.0\r\n' 'INVITE sip:a?b=cSIP/2.0\r\n'
    <<73, 78, 86, 73, 84, 69, 32, 115, 105, 112, 58, 97, 63, 98, 61, 99, 32, 83, 73, 80, 47, 50, 46, 48>>, <<73, 78, 86, 73, 84, 69, 32, 115, 105, 112, 58, 97, 63, 98, 61, 99, 32, 83, 73, 80, 47, 50, 46, 48, 13>>,  \* 'INVITE sip:a?b=c SIP/2.0' 'INVITE sip:a?b=c SIP/2.0\r'
    <<73, 78, 86, 73, 84, 69, 32, 115, 105, 112, 58, 97, 63, 98, 61, 99, 32, 83, 73, 80, 47, 50, 46, 48, 10>>, <<88, 32, 115, 105, 112, 58, 97, 63, 98, 61, 99, 13, 10>> }  \* 'INVITE sip:a?b=c SIP/2.0\n' 'X sip:a?b=c\r\n'
RequestLineInputs ==
  { RequestLineOf(m, u) : m \in MethodTokens, u \in RequestUris }
    \cup { RequestLineWith(m, u, v.text) :
             m \in MethodTokens, u \in RequestLineUris, v \in Versions }
    \cup MalformedRequestLines
    \cup { <<73, 78, 86, 73, 84, 69, 32, 115, 105, 112, 58, 97, 63, 98, 61, 99, 32, 83, 73, 80, 47, 50, 46, 48>>, <<73, 78, 86, 73, 84, 69, 32, 32, 115, 105, 112, 58, 97, 63, 98, 61, 99, 32, 83, 73, 80, 47, 50, 46, 48, 13, 10>>,  \* 'INVITE sip:a?b=c SIP/2.0' 'INVITE  sip:a?b=c SIP/2.0\r\n'
           <<32, 115, 105, 112, 58, 97, 63, 98, 61, 99, 32, 83, 73, 80, 47, 50, 46, 48, 13, 10>>, <<73, 78, 86, 73, 84, 69, 32, 115, 105, 112, 58, 97, 63, 98, 61, 99, 32, 83, 73, 80, 47, 51, 46, 49, 13, 10>> }  \* ' sip:a?b=c SIP/2.0\r\n' 'INVITE sip:a?b=c SIP/3.1\r\n'

\* header lines
UnknownNames == { <<88, 45, 67, 117, 115, 116, 111, 109, 45, 84, 104, 105, 110, 103>>, <<70, 111, 111>>, <<80, 45, 65, 115, 115, 101, 114, 116, 101, 100, 45, 73, 100, 101, 110, 116, 105, 116, 121>>, <<120>> }  \* 'X-Custom-Thing' 'Foo' 'P-Asserted-Identity' 'x'
ExtensionValues ==
  { <<97, 110, 121, 116, 104, 105, 110, 103>>, <<97>>, <<116, 119, 111, 32, 119, 111, 114, 100, 115>>, <<49>>, <<104, 195, 169>>, <<115, 105, 112, 58, 97, 64, 98, 59, 99, 61, 100>> }  \* 'anything' 'a' 'two words' '1' 'sip:a@b;c=d'
ExtensionLineOf(name, value) == name \o <<58, 32>> \o value \o CRLF  \* ': '
ExtensionLines ==
  { ExtensionLineOf(n, v) : n \in UnknownNames, v \in ExtensionValues }

KnownBadLines ==
  { <<67, 83, 101, 113, 58, 32, 97, 98, 99, 13, 10>>, <<67, 83, 101, 113, 58, 32, 49, 13, 10>>, <<67, 83, 101, 113, 58, 32, 73, 78, 86, 73, 84, 69, 32, 49, 13, 10>>, <<99, 115, 101, 113, 58, 32, 49, 32, 13, 10>>,  \* 'CSeq: abc\r\n' 'CSeq: 1\r\n' 'CSeq: INVITE 1\r\n' 'cseq: 1 \r\n'
    <<69, 120, 112, 105, 114, 101, 115, 58, 32, 97, 98, 99, 13, 10>>, <<69, 120, 112, 105, 114, 101, 115, 58, 32, 57, 57, 57, 57, 57, 57, 57, 57, 57, 57, 57, 13, 10>>, <<69, 120, 112, 105, 114, 101, 115, 58, 32, 49, 48, 32, 120, 13, 10>>,  \* 'Expires: abc\r\n' 'Expires: 99999999999\r\n' 'Expires: 10 x\r\n'
    <<69, 120, 112, 105, 114, 101, 115, 58, 32, 13, 10>>, <<77, 97, 120, 45, 70, 111, 114, 119, 97, 114, 100, 115, 58, 32, 45, 49, 13, 10>>, <<77, 97, 120, 45, 70, 111, 114, 119, 97, 114, 100, 115, 58, 32, 52, 50, 57, 52, 57, 54, 55, 50, 57, 54, 13, 10>>,  \* 'Expires: \r\n' 'Max-Forwards: -1\r\n' 'Max-Forwards: 4294967296\r\n'
    <<77, 105, 110, 45, 69, 120, 112, 105, 114, 101, 115, 58, 32, 115, 111, 111, 110, 13, 10>>, <<67, 111, 110, 116, 101, 110, 116, 45, 76, 101, 110, 103, 116, 104, 58, 32, 120, 13, 10>>, <<108, 58, 32, 13, 10>>,  \* 'Min-Expires: soon\r\n' 'Content-Length: x\r\n' 'l: \r\n'
    <<86, 105, 97, 58, 32, 83, 73, 80, 47, 50, 46, 48, 13, 10>>, <<86, 105, 97, 58, 32, 97, 13, 10>>, <<118, 58, 32, 83, 73, 80, 47, 50, 46, 48, 47, 85, 68, 80, 13, 10>>,  \* 'Via: SIP/2.0\r\n' 'Via: a\r\n' 'v: SIP/2.0/UDP\r\n'
    <<86, 105, 97, 58, 32, 83, 73, 80, 47, 50, 46, 48, 47, 85, 68, 80, 32, 97, 59, 116, 116, 108, 61, 57, 57, 57, 57, 57, 57, 57, 57, 57, 57, 57, 13, 10>>,  \* 'Via: SIP/2.0/UDP a;ttl=99999999999\r\n'
    <<68, 97, 116, 101, 58, 32, 121, 101, 115, 116, 101, 114, 100, 97, 121, 13, 10>>, <<68, 97, 116, 101, 58, 32, 83, 97, 116, 44, 32, 49, 51, 32, 78, 111, 118, 32, 50, 48, 49, 48, 32, 50, 51, 58, 50, 57, 58, 48, 48, 13, 10>> }  \* 'Date: yesterday\r\n' 'Date: Sat, 13 Nov 2010 23:29:00\r\n'
KnownGoodLines ==
  { <<67, 83, 101, 113, 58, 32, 49, 32, 73, 78, 86, 73, 84, 69, 13, 10>>, <<67, 83, 101, 113, 58, 32, 51, 49, 52, 49, 53, 57, 32, 70, 79, 79, 13, 10>>, <<69, 120, 112, 105, 114, 101, 115, 58, 32, 51, 54, 48, 48, 13, 10>>,  \* 'CSeq: 1 INVITE\r\n' 'CSeq: 314159 FOO\r\n' 'Expires: 3600\r\n'
    <<77, 97, 120, 45, 70, 111, 114, 119, 97, 114, 100, 115, 58, 32, 55, 48, 13, 10>>, <<77, 105, 110, 45, 69, 120, 112, 105, 114, 101, 115, 58, 32, 48, 13, 10>>, <<108, 58, 32, 48, 13, 10>>,  \* 'Max-Forwards: 70\r\n' 'Min-Expires: 0\r\n' 'l: 0\r\n'
    <<68, 97, 116, 101, 58, 32, 83, 97, 116, 44, 32, 49, 51, 32, 78, 111, 118, 32, 50, 48, 49, 48, 32, 50, 51, 58, 50, 57, 58, 48, 48, 32, 71, 77, 84, 13, 10>>,  \* 'Date: Sat, 13 Nov 2010 23:29:00 GMT\r\n'
    <<86, 105, 97, 58, 32, 83, 73, 80, 47, 50, 46, 48, 47, 85, 68, 80, 32, 97, 59, 98, 114, 97, 110, 99, 104, 61, 122, 57, 104, 71, 52, 98, 75, 13, 10>>,  \* 'Via: SIP/2.0/UDP a;branch=z9hG4bK\r\n'
    <<118, 58, 32, 83, 73, 80, 47, 50, 46, 48, 47, 84, 67, 80, 32, 97, 46, 98, 58, 53, 48, 54, 48, 59, 109, 97, 100, 100, 114, 61, 99, 59, 114, 101, 99, 101, 105, 118, 101, 100, 61, 49, 46, 50, 46, 51, 46, 52, 44, 32, 83, 73, 80, 47, 50, 46, 48, 47, 85, 68, 80, 32, 100, 13, 10>> }  \* 'v: SIP/2.0/TCP a.b:5060;maddr=c;received=1.2.3.4, SIP/2.0/UDP d\r\n'

ContentLengthLineOf(n) == <<67, 111, 110, 116, 101, 110, 116, 45, 76, 101, 110, 103, 116, 104, 58, 32>> \o n \o CRLF  \* 'Content-Length: '
ContentLengthLines == { ContentLengthLineOf(n) : n \in NumStrings }

ViaTtlLineOf(n) == <<86, 105, 97, 58, 32, 83, 73, 80, 47, 50, 46, 48, 47, 85, 68, 80, 32, 97, 59, 116, 116, 108, 61>> \o n \o CRLF  \* 'Via: SIP/2.0/UDP a;ttl='
ViaTtlLines == { ViaTtlLineOf(n) : n \in NumStrings }

\* Accept lines, with and without media ranges
AcceptLines ==
  { <<65, 99, 99, 101, 112, 116, 58, 13, 10>>, <<65, 99, 99, 101, 112, 116, 58, 32, 13, 10>>, <<65, 99, 99, 101, 112, 116, 58, 32, 32, 13, 10>>, <<65, 99, 99, 101, 112, 116, 58, 9, 13, 10>>,  \* 'Accept:\r\n' 'Accept: \r\n' 'Accept:  \r\n' 'Accept:\t\r\n'
    <<65, 99, 99, 101, 112, 116, 32, 58, 13, 10>>, <<97, 99, 99, 101, 112, 116, 58, 13, 10>>, <<65, 99, 99, 101, 112, 116, 13, 10>>, <<65, 99, 99, 101, 112, 116, 58, 32, 42, 47, 42, 13, 10>>,  \* 'Accept :\r\n' 'accept:\r\n' 'Accept\r\n' 'Accept: */*\r\n'
    <<65, 99, 99, 101, 112, 116, 58, 32, 116, 101, 120, 116, 47, 104, 116, 109, 108, 13, 10>>, <<65, 99, 99, 101, 112, 116, 58, 32, 116, 101, 120, 116, 13, 10>>,  \* 'Accept: text/html\r\n' 'Accept: text\r\n'
    <<65, 99, 99, 101, 112, 116, 58, 32, 97, 112, 112, 108, 105, 99, 97, 116, 105, 111, 110, 47, 115, 100, 112, 59, 108, 101, 118, 101, 108, 61, 49, 44, 32, 116, 101, 120, 116, 47, 42, 59, 113, 61, 48, 46, 53, 13, 10>>,  \* 'Accept: application/sdp;level=1, text/*;q=0.5\r\n'
    <<65, 99, 99, 101, 112, 116, 58, 32, 116, 101, 120, 116, 47, 104, 116, 109, 108, 59, 113, 61, 49, 46, 48, 48, 48, 13, 10>>, <<65, 99, 99, 101, 112, 116, 58, 32, 42, 47, 42, 59, 113, 61, 49, 46, 53, 44, 32, 116, 101, 120, 116, 47, 42, 59, 113, 61, 48, 13, 10>>,  \* 'Accept: text/html;q=1.000\r\n' 'Accept: */*;q=1.5, text/*;q=0\r\n'
    <<65, 99, 99, 101, 112, 116, 58, 32, 42, 47, 42, 59, 113, 61, 50, 13, 10>>, <<65, 99, 99, 101, 112, 116, 58, 32, 42, 47, 42, 59, 113, 61, 48, 46, 49, 50, 51, 52, 13, 10>> }  \* 'Accept: */*;q=2\r\n' 'Accept: */*;q=0.1234\r\n'

\* the headers that have a compact form: the canonical name, the compact
\* name, the Header variant and some values, well-formed and not
CompactHeaders ==
  { [name |-> <<86, 105, 97>>, compact |-> <<118>>, variant |-> "Via",  \* 'Via' 'v'
     values |-> { <<83, 73, 80, 47, 50, 46, 48, 47, 85, 68, 80, 32, 97, 59, 98, 114, 97, 110, 99, 104, 61, 122, 57, 104, 71, 52, 98, 75>>, <<83, 73, 80, 47, 50, 46, 48, 47, 84, 67, 80, 32, 97, 46, 98, 58, 53, 48, 54, 48, 44, 32, 83, 73, 80, 47, 50, 46, 48, 47, 85, 68, 80, 32, 100>>,  \* 'SIP/2.0/UDP a;branch=z9hG4bK' 'SIP/2.0/TCP a.b:5060, SIP/2.0/UDP d'
                  <<83, 73, 80, 47, 50, 46, 48>> }],  \* 'SIP/2.0'
    [name |-> <<70, 114, 111, 109>>, compact |-> <<102>>, variant |-> "From",  \* 'From' 'f'
     values |-> { <<66, 111, 98, 32, 60, 115, 105, 112, 58, 98, 111, 98, 64, 98, 105, 108, 111, 120, 105, 46, 99, 111, 109, 62, 59, 116, 97, 103, 61, 97, 54, 99, 56, 53, 99, 102>>, <<60, 115, 105, 112, 58, 97, 63, 98, 61, 99, 62>>,  \* 'Bob <sip:bob@biloxi.com>;tag=a6c85cf' '<sip:a?b=c>'
                  <<115, 105, 112, 58, 98, 111, 98, 64, 98, 105, 108, 111, 120, 105, 46, 99, 111, 109>>, <<60, 62>> }],  \* 'sip:bob@biloxi.com' '<>'
    [name |-> <<84, 111>>, compact |-> <<116>>, variant |-> "To",  \* 'To' 't'
     values |-> { <<67, 97, 114, 111, 108, 32, 60, 115, 105, 112, 58, 99, 97, 114, 111, 108, 64, 99, 104, 105, 99, 97, 103, 111, 46, 99, 111, 109, 62>>, <<60, 115, 105, 112, 58, 97, 63, 98, 61, 99, 62, 59, 116, 97, 103, 61, 49, 59, 120, 61, 121>>, <<>> }],  \* 'Carol <sip:carol@chicago.com>' '<sip:a?b=c>;tag=1;x=y'
    [name |-> <<67, 97, 108, 108, 45, 73, 68>>, compact |-> <<105>>, variant |-> "CallID",  \* 'Call-ID' 'i'
     values |-> { <<97, 56, 52, 98, 52, 99, 55, 54, 101, 54, 54, 55, 49, 48, 64, 112, 99, 51, 51, 46, 97, 116, 108, 97, 110, 116, 97, 46, 99, 111, 109>>, <<120>>, <<97, 32, 98>> }],  \* 'a84b4c76e66710@pc33.atlanta.com' 'x' 'a b'
    [name |-> <<67, 111, 110, 116, 97, 99, 116>>, compact |-> <<109>>, variant |-> "Contact",  \* 'Contact' 'm'
     values |-> { <<42>>, <<60, 115, 105, 112, 58, 97, 63, 98, 61, 99, 62, 59, 113, 61, 48, 46, 55, 59, 101, 120, 112, 105, 114, 101, 115, 61, 51, 54, 48, 48>>,  \* '*' '<sip:a?b=c>;q=0.7;expires=3600'
                  <<66, 111, 98, 32, 60, 115, 105, 112, 58, 98, 111, 98, 64, 98, 46, 99, 111, 109, 62, 44, 32, 60, 115, 105, 112, 58, 99, 64, 100, 46, 99, 111, 109, 62>>, <<34, 66, 111, 98, 34, 32, 60, 115, 105, 112, 58, 98, 111, 98, 64, 98, 46, 99, 111, 109, 62>> }],  \* 'Bob <sip:bob@b.com>, <sip:c@d.com>' '\"Bob\" <sip:bob@b.com>'
    [name |-> <<67, 111, 110, 116, 101, 110, 116, 45, 84, 121, 112, 101>>, compact |-> <<99>>, variant |-> "ContentType",  \* 'Content-Type' 'c'
     values |-> { <<97, 112, 112, 108, 105, 99, 97, 116, 105, 111, 110, 47, 115, 100, 112>>, <<116, 101, 120, 116, 47, 104, 116, 109, 108, 59, 99, 104, 97, 114, 115, 101, 116, 61, 117, 116, 102, 45, 56>>, <<116, 101, 120, 116>> }],  \* 'application/sdp' 'text/html;charset=utf-8' 'text'
    [name |-> <<67, 111, 110, 116, 101, 110, 116, 45, 76, 101, 110, 103, 116, 104>>, compact |-> <<108>>, variant |-> "ContentLength",  \* 'Content-Length' 'l'
     values |-> { <<48>>, <<51, 52, 57>>, <<120>> }],  \* '0' '349' 'x'
    [name |-> <<67, 111, 110, 116, 101, 110, 116, 45, 69, 110, 99, 111, 100, 105, 110, 103>>, compact |-> <<101>>, variant |-> "ContentEncoding",  \* 'Content-Encoding' 'e'
     values |-> { <<103, 122, 105, 112>>, <<103, 122, 105, 112, 44, 32, 100, 101, 102, 108, 97, 116, 101>>, <<44>> }],  \* 'gzip' 'gzip, deflate' ','
    [name |-> <<83, 117, 98, 106, 101, 99, 116>>, compact |-> <<115>>, variant |-> "Subject",  \* 'Subject' 's'
     values |-> { <<72, 101, 108, 108, 111, 32, 116, 104, 101, 114, 101>>, <<120>>, <<104, 195, 169>> }],  \* 'Hello there' 'x'
    [name |-> <<83, 117, 112, 112, 111, 114, 116, 101, 100>>, compact |-> <<107>>, variant |-> "Supported",  \* 'Supported' 'k'
     values |-> { <<49, 48, 48, 114, 101, 108>>, <<49, 48, 48, 114, 101, 108, 44, 32, 116, 105, 109, 101, 114>>, <<63>> }] }  \* '100rel' '100rel, timer' '?'

to_ascii_uppercase(c) == IF c \in 97..122 THEN c - 32 ELSE c
Upper(s) == [k \in DOMAIN s |-> to_ascii_uppercase(s[k])]
Lower(s) == [k \in DOMAIN s |-> to_ascii_lowercase(s[k])]

\* the ways the name of header H is written: the canonical name as it is, in
\* upper, lower and mixed case, and the compact name in both cases
Mixed(s) == [k \in DOMAIN s |-> IF k % 2 = 0 THEN to_ascii_uppercase(s[k])
                                          ELSE to_ascii_lowercase(s[k])]
NamesOf(H) ==
  { H.name, Upper(H.name), Lower(H.name), Mixed(H.name), H.compact, Upper(H.compact) }
HeaderLineOf(name, value) == name \o <<58, 32>> \o value \o CRLF  \* ': '
CompactHeaderLines ==
  { HeaderLineOf(n, v) : <<n, v>> \in UNION { NamesOf(H) \X H.values : H \in CompactHeaders } }

\* Via lines: each via-parm is given with the Via entry it stands for
ViaParmCases ==
  { [text |-> <<83, 73, 80, 47, 50, 46, 48, 47, 85, 68, 80, 32, 97>>,  \* 'SIP/2.0/UDP a'
     via |-> [protocol |-> <<83, 73, 80, 47, 50, 46, 48, 47, 85, 68, 80>>, sent_by |-> <<97>>, params |-> <<>>]],  \* 'SIP/2.0/UDP' 'a'
    [text |-> <<83, 73, 80, 47, 50, 46, 48, 47, 84, 67, 80, 32, 99, 108, 105, 101, 110, 116, 46, 97, 116, 108, 97, 110, 116, 97, 46, 101, 120, 97, 109, 112, 108, 101, 46, 99, 111, 109, 58, 53, 48, 54, 48, 59, 98, 114, 97, 110, 99, 104, 61, 122, 57, 104, 71, 52, 98, 75, 55, 52, 98, 52, 51>>,  \* 'SIP/2.0/TCP client.atlanta.example.com:5060;branch=z9hG4bK74b43'
     via |-> [protocol |-> <<83, 73, 80, 47, 50, 46, 48, 47, 84, 67, 80>>, sent_by |-> <<99, 108, 105, 101, 110, 116, 46, 97, 116, 108, 97, 110, 116, 97, 46, 101, 120, 97, 109, 112, 108, 101, 46, 99, 111, 109, 58, 53, 48, 54, 48>>,  \* 'SIP/2.0/TCP' 'client.atlanta.example.com:5060'
              params |-> << <<"Branch", <<122, 57, 104, 71, 52, 98, 75, 55, 52, 98, 52, 51>>>> >>]],  \* 'z9hG4bK74b43'
    [text |-> <<83, 73, 80, 47, 50, 46, 48, 47, 87, 83, 32, 49, 46, 50, 46, 51, 46, 52, 59, 114, 112, 111, 114, 116, 59, 98, 114, 97, 110, 99, 104, 61, 120, 59, 114, 101, 99, 101, 105, 118, 101, 100, 61, 49, 46, 50, 46, 51, 46, 52>>,  \* 'SIP/2.0/WS 1.2.3.4;rport;branch=x;received=1.2.3.4'
     via |-> [protocol |-> <<83, 73, 80, 47, 50, 46, 48, 47, 87, 83>>, sent_by |-> <<49, 46, 50, 46, 51, 46, 52>>,  \* 'SIP/2.0/WS' '1.2.3.4'
              params |-> << <<"Extension", <<<<114, 112, 111, 114, 116>>, None>>>>, <<"Branch", <<120>>>>,  \* 'rport' 'x'
                            <<"Received", <<49, 46, 50, 46, 51, 46, 52>>>> >>]],  \* '1.2.3.4'
    [text |-> <<83, 73, 80, 47, 50, 46, 48, 47, 84, 76, 83, 45, 83, 67, 84, 80, 32, 97>>,  \* 'SIP/2.0/TLS-SCTP a'
     via |-> [protocol |-> <<83, 73, 80, 47, 50, 46, 48, 47, 84, 76, 83, 45, 83, 67, 84, 80>>, sent_by |-> <<97>>, params |-> <<>>]] }  \* 'SIP/2.0/TLS-SCTP' 'a'
MaxViaParms == 2
ViaParmLists == SeqsUpTo(ViaParmCases, MaxViaParms) \ { <<>> }
RECURSIVE ViaParmsText(_)
ViaParmsText(vs) ==
  IF Len(vs) = 1 THEN vs[1].text
  ELSE vs[1].text \o <<44, 32>> \o ViaParmsText(Tail(vs))  \* ', '
ViaLineOf(vs) == <<86, 105, 97, 58, 32>> \o ViaParmsText(vs) \o CRLF  \* 'Via: '
EmptyViaLines == { <<86, 105, 97, 58, 13, 10>>, <<86, 105, 97, 58, 32, 13, 10>>, <<118, 58, 13, 10>>, <<86, 105, 97, 58, 32, 44, 13, 10>> }  \* 'Via:\r\n' 'Via: \r\n' 'v:\r\n' 'Via: ,\r\n'
ViaLines == { ViaLineOf(vs) : vs \in ViaParmLists } \cup EmptyViaLines

HeaderLines ==
  ViaLines \cup CompactHeaderLines \cup ExtensionLines \cup KnownBadLines \cup KnownGoodLines \cup AcceptLines
    \cup ContentLengthLines \cup ViaTtlLines \cup { <<>>, CRLF, <<110, 111, 32, 99, 111, 108, 111, 110, 13, 10>> }  \* 'no colon\r\n'

\* whole messages: a start line, a header block, the end of the headers
RequestStarts ==
  { <<73, 78, 86, 73, 84, 69, 32, 115, 105, 112, 58, 97, 63, 98, 61, 99, 32, 83, 73, 80, 47, 50, 46, 48, 13, 10>>, <<70, 79, 79, 32, 115, 105, 112, 58, 98, 111, 98, 64, 98, 105, 108, 111, 120, 105, 46, 101, 120, 97, 109, 112, 108, 101, 46, 99, 111, 109, 32, 83, 73, 80, 47, 50, 46, 48, 13, 10>> }  \* 'INVITE sip:a?b=c SIP/2.0\r\n' 'FOO sip:bob@biloxi.example.com SIP/2.0\r\n'
FailingRequestStarts ==
  { <<73, 78, 86, 73, 84, 69, 32, 115, 105, 112, 58, 97, 59, 116, 116, 108, 61, 50, 53, 54, 63, 98, 61, 99, 32, 83, 73, 80, 47, 50, 46, 48, 13, 10>>,  \* 'INVITE sip:a;ttl=256?b=c SIP/2.0\r\n'
    <<73, 78, 86, 73, 84, 69, 32, 115, 105, 112, 58, 97, 63, 98, 61, 99, 32, 83, 73, 80, 47, 50, 46, 57, 57, 57, 57, 57, 57, 57, 57, 57, 57, 57, 13, 10>> }  \* 'INVITE sip:a?b=c SIP/2.99999999999\r\n'
ResponseStarts ==
  { <<83, 73, 80, 47, 50, 46, 48, 32, 50, 48, 48, 32, 79, 75, 13, 10>>, <<83, 73, 80, 47, 50, 46, 48, 32, 54, 57, 57, 32, 13, 10>>, <<115, 105, 112, 47, 50, 46, 48, 32, 52, 48, 52, 32, 78, 111, 116, 32, 70, 111, 117, 110, 100, 13, 10>>,  \* 'SIP/2.0 200 OK\r\n' 'SIP/2.0 699 \r\n' 'sip/2.0 404 Not Found\r\n'
    <<83, 73, 80, 47, 51, 46, 49, 32, 49, 56, 48, 32, 82, 105, 110, 103, 105, 110, 103, 13, 10>> }  \* 'SIP/3.1 180 Ringing\r\n'
OtherStarts == { <<66, 79, 71, 85, 83, 13, 10>>, <<>>, <<83, 73, 80, 47, 50, 46, 48, 32, 50, 48, 32, 79, 75, 13, 10>> }  \* 'BOGUS\r\n' 'SIP/2.0 20 OK\r\n'
GoodHeaderBlocks ==
  { <<>>, <<69, 120, 112, 105, 114, 101, 115, 58, 32, 51, 54, 48, 48, 13, 10>>, <<77, 97, 120, 45, 70, 111, 114, 119, 97, 114, 100, 115, 58, 32, 55, 48, 13, 10, 67, 83, 101, 113, 58, 32, 49, 32, 73, 78, 86, 73, 84, 69, 13, 10>> }  \* 'Expires: 3600\r\n' 'Max-Forwards: 70\r\nCSeq: 1 INVITE\r\n'
ErrorHeaderBlocks ==
  { <<67, 83, 101, 113, 58, 32, 97, 98, 99, 13, 10>>, <<69, 120, 112, 105, 114, 101, 115, 58, 32, 51, 54, 48, 48, 13, 10, 68, 97, 116, 101, 58, 32, 121, 101, 115, 116, 101, 114, 100, 97, 121, 13, 10>> }  \* 'CSeq: abc\r\n' 'Expires: 3600\r\nDate: yesterday\r\n'
FailureHeaderBlocks ==
  { <<69, 120, 112, 105, 114, 101, 115, 58, 32, 57, 57, 57, 57, 57, 57, 57, 57, 57, 57, 57, 13, 10>>, <<77, 97, 120, 45, 70, 111, 114, 119, 97, 114, 100, 115, 58, 32, 55, 48, 13, 10, 67, 83, 101, 113, 58, 32, 57, 57, 57, 57, 57, 57, 57, 57, 57, 57, 57, 32, 73, 78, 86, 73, 84, 69, 13, 10>> }  \* 'Expires: 99999999999\r\n' 'Max-Forwards: 70\r\nCSeq: 99999999999 INVITE\r\n'
BadHeaderBlocks == ErrorHeaderBlocks \cup FailureHeaderBlocks
MessageEnds == { CRLF, <<13, 10, 118, 61, 48, 13, 10>>, <<>> }  \* '\r\nv=0\r\n'
MessageOf(s, h, e) == s \o h \o e
MessageInputs ==
  { MessageOf(s, h, e) :
      s \in RequestStarts \cup FailingRequestStarts \cup ResponseStarts \cup OtherStarts,
      h \in GoodHeaderBlocks \cup BadHeaderBlocks,
      e \in MessageEnds }

\* requests with several header lines (two lines of the same name, the same
\* line twice), a Content-Length that is not the length of the body, and
\* bodies with an empty line of their own
ManyHeaderBlocks ==
  { <<86, 105, 97, 58, 32, 83, 73, 80, 47, 50, 46, 48, 47, 85, 68, 80, 32, 97, 59, 98, 114, 97, 110, 99, 104, 61, 122, 57, 104, 71, 52, 98, 75, 13, 10, 86, 105, 97, 58, 32, 83, 73, 80, 47, 50, 46, 48, 47, 84, 67, 80, 32, 98, 13, 10, 77, 97, 120, 45, 70, 111, 114, 119, 97, 114, 100, 115, 58, 32, 55, 48, 13, 10, 86, 105, 97, 58, 32, 83, 73, 80, 47, 50, 46, 48, 47, 85, 68, 80, 32, 97, 59, 98, 114, 97, 110, 99, 104, 61, 122, 57, 104, 71, 52, 98, 75, 13, 10>>,  \* 'Via: SIP/2.0/UDP a;branch=z9hG4bK\r\nVia: SIP/2.0/TCP b\r\nMax-Forwards: 70\r\nVia: SIP/2.0/UDP a;branch=z9hG4bK\r\n'
    <<67, 83, 101, 113, 58, 32, 49, 32, 73, 78, 86, 73, 84, 69, 13, 10, 69, 120, 112, 105, 114, 101, 115, 58, 32, 51, 54, 48, 48, 13, 10, 69, 120, 112, 105, 114, 101, 115, 58, 32, 51, 54, 48, 48, 13, 10>>,  \* 'CSeq: 1 INVITE\r\nExpires: 3600\r\nExpires: 3600\r\n'
    <<67, 111, 110, 116, 101, 110, 116, 45, 76, 101, 110, 103, 116, 104, 58, 32, 48, 13, 10>>, <<108, 58, 32, 51, 13, 10, 69, 120, 112, 105, 114, 101, 115, 58, 32, 49, 13, 10>>,  \* 'Content-Length: 0\r\n' 'l: 3\r\nExpires: 1\r\n'
    <<67, 111, 110, 116, 101, 110, 116, 45, 76, 101, 110, 103, 116, 104, 58, 32, 57, 57, 57, 57, 13, 10>>, <<86, 105, 97, 58, 32, 83, 73, 80, 47, 50, 46, 48, 47, 85, 68, 80, 32, 97, 13, 10, 88, 45, 67, 117, 115, 116, 111, 109, 45, 84, 104, 105, 110, 103, 58, 32, 97, 110, 121, 116, 104, 105, 110, 103, 13, 10>> }  \* 'Content-Length: 9999\r\n' 'Via: SIP/2.0/UDP a\r\nX-Custom-Thing: anything\r\n'
RequestEnds ==
  MessageEnds \cup { <<13, 10, 97, 98, 99>>, <<13, 10, 97, 98, 13, 10, 13, 10, 99, 100>>, <<13, 10, 13, 10>>, <<97, 98, 99>> }  \* '\r\nabc' '\r\nab\r\n\r\ncd' '\r\n\r\n' 'abc'
RequestInputs ==
  MessageInputs \cup
  { MessageOf(s, h, e) :
      s \in RequestStarts, h \in ManyHeaderBlocks \cup GoodHeaderBlocks, e \in RequestEnds }

\* a header whose value has the shape of UTF-8 but is not UTF-8 (an overlong
\* encoding)
NotUtf8Blocks == { <<83, 117, 98, 106, 101, 99, 116, 58, 32>> \o <<192, 128>> \o CRLF }  \* 'Subject: '
ParseInputs ==
  RequestInputs \cup
  { MessageOf(s, h, e) :
      s \in RequestStarts \cup ResponseStarts, h \in NotUtf8Blocks, e \in MessageEnds }

\* contacts: a display name (given with the name that it stands for: the
\* text of an unquoted name, as the tests of display_name have it, and what
\* is between the quotes of a quoted one), a URI in angle brackets,
\* parameters (given with the ContactParam each stands for)
DisplayNames ==
  { [text |-> <<>>, name |-> None],
    [text |-> <<74, 111, 104, 110, 32>>, name |-> Some(<<74, 111, 104, 110, 32>>)],  \* 'John ' 'John '
    [text |-> <<74, 111, 104, 110, 32, 68, 111, 101, 32>>, name |-> Some(<<74, 111, 104, 110, 32, 68, 111, 101, 32>>)],  \* 'John Doe ' 'John Doe '
    [text |-> <<34, 74, 111, 104, 110, 34, 32>>, name |-> Some(<<74, 111, 104, 110>>)],  \* '\"John\" ' 'John'
    [text |-> <<34, 74, 111, 104, 110, 34>>, name |-> Some(<<74, 111, 104, 110>>)],  \* '\"John\"' 'John'
    [text |-> <<34, 74, 111, 104, 110, 32, 68, 111, 101, 34, 32>>, name |-> Some(<<74, 111, 104, 110, 32, 68, 111, 101>>)] }  \* '\"John Doe\" ' 'John Doe'
ContactUris == { <<115, 105, 112, 58, 106, 64, 101, 120, 97, 109, 112, 108, 101, 46, 99, 111, 109>>, <<115, 105, 112, 58, 97, 63, 98, 61, 99>>, <<115, 105, 112, 115, 58, 106, 64, 101, 120, 97, 109, 112, 108, 101, 46, 99, 111, 109, 58, 53, 48, 54, 49>> }  \* 'sip:j@example.com' 'sip:a?b=c' 'sips:j@example.com:5061'
ContactParamCases ==
  { [text |-> <<113, 61, 48, 46, 53>>, param |-> <<"Q", <<48, 46, 53>>>>],  \* 'q=0.5' '0.5'
    [text |-> <<101, 120, 112, 105, 114, 101, 115, 61, 56>>, param |-> <<"Expires", 8>>],  \* 'expires=8'
    [text |-> <<120, 61, 121>>, param |-> <<"Extension", <<<<120>>, Some(<<121>>)>>>>] }  \* 'x=y' 'x' 'y'
MaxContactParams == 2
ContactParamLists == SeqsUpTo(ContactParamCases, MaxContactParams)
RECURSIVE ParamsText(_)
ParamsText(ps) ==
  IF ps = <<>> THEN <<>> ELSE <<59>> \o Head(ps).text \o ParamsText(Tail(ps))  \* ';'
ContactOf(dn, u, ps) == dn.text \o <<60>> \o u \o <<62>> \o ParamsText(ps)  \* '<' '>'
ContactInputs ==
  { ContactOf(dn, u, ps) :
      dn \in DisplayNames, u \in ContactUris, ps \in ContactParamLists }
    \cup { <<60, 115, 105, 112, 58, 97, 62, 59, 113, 61, 49, 46, 53>>, <<60, 115, 105, 112, 58, 97, 62, 59, 113, 61, 48, 46, 49, 50, 51, 52>>, <<60, 115, 105, 112, 58, 97, 62, 59, 113, 61, 50>>, <<60, 115, 105, 112, 58, 97, 62, 59, 113, 61, 49, 59, 81, 61, 48, 46>>,  \* '<sip:a>;q=1.5' '<sip:a>;q=0.1234' '<sip:a>;q=2' '<sip:a>;q=1;Q=0.'
           <<60, 115, 105, 112, 58, 97, 62, 59, 113, 61, 49, 46, 48, 48, 48, 59, 113, 61, 46, 53>> }  \* '<sip:a>;q=1.000;q=.5'
    \cup { <<>>, <<42>>, <<115, 105, 112, 58, 97, 63, 98, 61, 99>>, <<115, 105, 112, 58, 106, 64, 101, 120, 97, 109, 112, 108, 101, 46, 99, 111, 109, 59, 113, 61, 49, 46, 48>>, <<60, 62>>,  \* '*' 'sip:a?b=c' 'sip:j@example.com;q=1.0' '<>'
           <<34, 74, 111, 104, 110, 34, 32, 60, 115, 105, 112, 58, 106, 64, 101, 120, 97, 109, 112, 108, 101, 46, 99, 111, 109, 62, 59, 101, 120, 112, 105, 114, 101, 115, 61, 56, 59, 113, 61, 49, 46, 48>>,  \* '\"John\" <sip:j@example.com>;expires=8;q=1.0'
           <<60, 115, 105, 112, 58, 97, 63, 98, 61, 99, 62, 59, 101, 120, 112, 105, 114, 101, 115, 61, 57, 57, 57, 57, 57, 57, 57, 57, 57, 57, 57>> }  \* '<sip:a?b=c>;expires=99999999999'

---------------------------------------------------------------------------
(* The state machine: a production is called on an input and returns       *)

\* what host is applied to: the hostname inputs, and addresses
HostInputs ==
  HostnameInputs \cup
  { <<49, 50, 55, 46, 48, 46, 48, 46, 49>>, <<49, 46, 49, 46, 49, 46, 49>>, <<49, 46, 49, 46, 49, 46, 49, 59>>, <<49, 46, 50, 46, 51, 46, 52, 120>>, <<50, 53, 54, 46, 49, 46, 49, 46, 49>>,  \* '127.0.0.1' '1.1.1.1' '1.1.1.1;' '1.2.3.4x' '256.1.1.1'
    <<97, 46, 49, 46, 49, 46, 49, 46, 49>>, <<91, 58, 58, 49, 93>>, <<91, 58, 58, 49, 93, 58, 53, 48, 54, 48>>, <<91, 49, 58, 97, 58, 58, 93>>, <<91, 58, 58, 49>>, <<45, 97, 46, 49, 46, 49, 46, 49>> }  \* 'a.1.1.1.1' '[::1]' '[::1]:5060' '[1:a::]' '[::1' '-a.1.1.1'

\* generic parameters: a name alone, a name and '=', a name and a value
MaxValueLen == 3
ValueAlphabet == Chars(<<97, 49, 45, 46, 95>>)  \* 'a1-._'
ParamValues ==
  (SeqsUpTo(ValueAlphabet, MaxValueLen) \ {<<>>}) \cup
  { <<118, 97, 108, 117, 101>>, <<49, 50, 55, 46, 48, 46, 48, 46, 49>>, <<49, 46, 50, 46, 51, 46, 52, 120>>, <<97, 46, 98, 45, 99>>, <<34, 97, 32, 98, 34>>, <<34, 45, 97, 34>> }  \* 'value' '127.0.0.1' '1.2.3.4x' 'a.b-c' '\"a b\"' '\"-a\"'
ParamNames == { <<120>>, <<111, 116, 104, 101, 114>> }  \* 'x' 'other'
GenericParamInputs ==
  ParamNames \cup { n \o <<61>> : n \in ParamNames }  \* '='
    \cup { n \o <<61>> \o v : n \in ParamNames, v \in ParamValues }  \* '='

\* free text: up to MaxTextUnits units, each a run of printable ASCII, a
\* multi-byte sequence or LWS; the first and the last one are no LWS
MaxTextUnits == 3
\* well-formed UTF-8: ASCII, U+00E9, U+20AC, U+1F600
ValidChars ==
  { <<97>>, <<33, 126>>, <<195, 169>>, <<226, 130, 172>>, <<240, 159, 152, 128>> }  \* 'a' '!~'
\* a lead byte and its continuation bytes that are no UTF-8: overlong forms
\* of two and three bytes, a code point beyond U+10FFFF, five and six bytes
OtherChars ==
  { <<192, 128>>, <<224, 128, 128>>, <<245, 128, 128, 128>>,
    <<248, 136, 128, 128, 128>>, <<252, 132, 128, 128, 128, 128>> }
LwsUnits == { <<32>>, <<13, 10, 9>> }  \* ' ' '\r\n\t'
RECURSIVE Concat(_)
Concat(ss) == IF ss = <<>> THEN <<>> ELSE Head(ss) \o Concat(Tail(ss))
TextsOf(chars) ==
  { Concat(us) : us \in
      { u \in UNION { [1..k -> chars \cup LwsUnits] : k \in 1..MaxTextUnits } :
          u[1] \in chars /\ u[Len(u)] \in chars } }
ValidTexts == TextsOf(ValidChars)
OtherTexts == TextsOf(ValidChars \cup OtherChars) \ ValidTexts
SubjectInputs ==
  { n \o <<58, 32>> \o v : n \in { <<83, 117, 98, 106, 101, 99, 116>>, <<115>> }, v \in ValidTexts \cup OtherTexts }  \* ': ' 'Subject' 's'
OrganizationInputs ==
  { <<79, 114, 103, 97, 110, 105, 122, 97, 116, 105, 111, 110, 58, 32>> \o v : v \in ValidTexts \cup OtherTexts }  \* 'Organization: '

\* every string of at most MaxLwsLen bytes over space, tab, CR, LF and a
\* byte that is no whitespace
MaxLwsLen == 5
LwsAlphabet == Chars(<<32, 9, 13, 10, 120>>)  \* ' \t\r\nx'
LwsInputs == SeqsUpTo(LwsAlphabet, MaxLwsLen)

\* every string of at most MaxStatusLen bytes over some digits, a space and
\* a letter: known status codes, other codes and no codes
MaxStatusLen == 4
StatusAlphabet == Chars(<<48, 49, 51, 52, 56, 32, 120>>)  \* '01348 x'
StatusCodeInputs == SeqsUpTo(StatusAlphabet, MaxStatusLen)

\* every string of at most MaxCommentLen bytes over the parentheses, a
\* comment character, the backslash, a space and a byte no comment holds
\* unquoted
MaxCommentLen == 5
CommentAlphabet == Chars(<<40, 41, 97, 92, 32>>) \cup {1}  \* '()a\\ '
CommentInputs == SeqsUpTo(CommentAlphabet, MaxCommentLen)

\* qop values: the two named ones in several cases, tokens that start like
\* them and another token; a qop-options list holds up to MaxQopOptions
MaxQopOptions == 2
QopTokens ==
  { <<97, 117, 116, 104>>, <<97, 117, 116, 104, 45, 105, 110, 116>>, <<65, 85, 84, 72>>, <<65, 117, 116, 104, 45, 73, 110, 116>>, <<97, 117, 116, 104, 120>>, <<97, 117, 116, 104, 45, 105, 110>>, <<120>> }  \* 'auth' 'auth-int' 'AUTH' 'Auth-Int' 'authx' 'auth-in' 'x'
MessageQopInputs ==
  { n \o v : n \in { <<113, 111, 112, 61>>, <<81, 79, 80, 32, 61, 32>> }, v \in QopTokens }  \* 'qop=' 'QOP = '
RECURSIVE JoinWith(_, _)
JoinWith(ss, sep) ==
  IF Len(ss) = 1 THEN ss[1] ELSE ss[1] \o sep \o JoinWith(Tail(ss), sep)
QopLists == UNION { [1..k -> QopTokens] : k \in 1..MaxQopOptions }
QopOptionsOf(vs) == <<113, 111, 112, 61, 34>> \o JoinWith(vs, <<44>>) \o <<34>>  \* 'qop=\"' ',' '\"'
QopOptionsInputs ==
  { QopOptionsOf(vs) : vs \in QopLists }
    \cup { <<113, 111, 112, 61, 97, 117, 116, 104>>, <<113, 111, 112, 61, 34, 97, 117, 116, 104>>, <<113, 111, 112, 61, 34, 34>>, <<113, 111, 112, 61, 34, 97, 117, 116, 104, 44, 34>> }  \* 'qop=auth' 'qop=\"auth' 'qop=\"\"' 'qop=\"auth,\"'

\* every string of at most MaxQvalueLen bytes over some digits, the dot and
\* a letter
MaxQvalueLen == 6
QvalueAlphabet == Chars(<<48, 49, 53, 46, 120>>)  \* '015.x'
QvalueInputs == SeqsUpTo(QvalueAlphabet, MaxQvalueLen)

\* the arguments of Request::new, the headers written as their lines: the
\* header lists are the selections, in order, from a list that holds every
\* mandatory header twice, with two values, and headers that are not
\* mandatory; the list is taken in both directions
MaxHeaders == 12
HeaderLinePool ==
  << <<86, 105, 97, 58, 32, 83, 73, 80, 47, 50, 46, 48, 47, 85, 68, 80, 32, 97, 59, 98, 114, 97, 110, 99, 104, 61, 122, 57, 104, 71, 52, 98, 75, 13, 10>>, <<84, 111, 58, 32, 60, 115, 105, 112, 58, 99, 64, 100, 62, 13, 10>>,  \* 'Via: SIP/2.0/UDP a;branch=z9hG4bK\r\n' 'To: <sip:c@d>\r\n'
     <<77, 97, 120, 45, 70, 111, 114, 119, 97, 114, 100, 115, 58, 32, 55, 48, 13, 10>>, <<70, 114, 111, 109, 58, 32, 60, 115, 105, 112, 58, 97, 64, 98, 62, 59, 116, 97, 103, 61, 49, 13, 10>>, <<67, 83, 101, 113, 58, 32, 49, 32, 73, 78, 86, 73, 84, 69, 13, 10>>,  \* 'Max-Forwards: 70\r\n' 'From: <sip:a@b>;tag=1\r\n' 'CSeq: 1 INVITE\r\n'
     <<67, 97, 108, 108, 45, 73, 68, 58, 32, 97, 64, 98, 13, 10>>, <<69, 120, 112, 105, 114, 101, 115, 58, 32, 51, 54, 48, 48, 13, 10>>, <<105, 58, 32, 120, 13, 10>>,  \* 'Call-ID: a@b\r\n' 'Expires: 3600\r\n' 'i: x\r\n'
     <<118, 58, 32, 83, 73, 80, 47, 50, 46, 48, 47, 84, 67, 80, 32, 98, 44, 32, 83, 73, 80, 47, 50, 46, 48, 47, 85, 68, 80, 32, 100, 13, 10>>, <<67, 83, 101, 113, 58, 32, 50, 32, 65, 67, 75, 13, 10>>,  \* 'v: SIP/2.0/TCP b, SIP/2.0/UDP d\r\n' 'CSeq: 2 ACK\r\n'
     <<116, 58, 32, 60, 115, 105, 112, 115, 58, 101, 64, 102, 62, 59, 116, 97, 103, 61, 57, 13, 10>>, <<77, 97, 120, 45, 70, 111, 114, 119, 97, 114, 100, 115, 58, 32, 48, 13, 10>>, <<102, 58, 32, 115, 105, 112, 58, 103, 64, 104, 13, 10>>,  \* 't: <sips:e@f>;tag=9\r\n' 'Max-Forwards: 0\r\n' 'f: sip:g@h\r\n'
     <<67, 111, 110, 116, 97, 99, 116, 58, 32, 60, 115, 105, 112, 58, 97, 62, 13, 10>> >>  \* 'Contact: <sip:a>\r\n'
HeaderPool ==
  [k \in 1..MaxHeaders |-> HeaderLinePool[((k - 1) % Len(HeaderLinePool)) + 1]]
\* the headers that the lines stand for
HeadersOf(lines) ==
  [k \in 1..Len(lines) |-> message_header(Start(lines[k])).val]
Reverse(s) == [k \in 1..Len(s) |-> s[Len(s) + 1 - k]]
\* the entries of s at the indices in S, in the order of s
Selection(s, S) ==
  [k \in 1..Cardinality(S) |->
     s[CHOOSE i \in S : Cardinality({ j \in S : j <= i }) = k]]
HeaderLists ==
  { Selection(HeaderPool, S) : S \in SUBSET (1..MaxHeaders) }
    \cup { Selection(Reverse(HeaderPool), S) : S \in SUBSET (1..MaxHeaders) }
NewRequestLine ==
  [method |-> <<"Invite">>, uri |-> <<115, 105, 112, 58, 97, 63, 98, 61, 99>>, version |-> <<"Two">>]  \* 'sip:a?b=c'
NewInputs ==
  [request_line : { NewRequestLine }, headers : HeaderLists,
   body : { None, <<<<118, 61, 48>>>> }]  \* 'v=0'

Productions ==
  { "Request::new", "qvalue", "message_qop", "qop_options", "comment", "status_code", "linear_whitespace", "subject", "organization", "host", "generic_param", "hostname", "integer", "ttl", "uri_parameters", "sip_uri", "request_uri",
    "request_line", "message_header", "sip_message", "request",
    "Request::parse", "Response::parse", "contact_param", "ipv4_address" }

Inputs(p) ==
  CASE p = "hostname" -> HostnameInputs
    [] p = "host" -> HostInputs
    [] p = "qvalue" -> QvalueInputs
    [] p = "message_qop" -> MessageQopInputs
    [] p = "qop_options" -> QopOptionsInputs
    [] p = "comment" -> CommentInputs
    [] p = "status_code" -> StatusCodeInputs
    [] p = "linear_whitespace" -> LwsInputs
    [] p = "subject" -> SubjectInputs
    [] p = "organization" -> OrganizationInputs
    [] p = "generic_param" -> GenericParamInputs
    [] p = "ipv4_address" -> Ipv4Inputs
    [] p = "integer" -> IntegerInputs
    [] p = "ttl" -> TtlInputs
    [] p = "uri_parameters" -> UriParametersInputs
    [] p = "sip_uri" -> UriInputs
    [] p = "request_uri" -> UriInputs
    [] p = "request_line" -> RequestLineInputs
    [] p = "message_header" -> HeaderLines
    [] p = "sip_message" -> MessageInputs
    [] p = "request" -> RequestInputs
    [] p = "Request::parse" -> ParseInputs
    [] p = "Response::parse" -> ParseInputs
    [] p = "contact_param" -> ContactInputs
    [] p = "Request::new" -> NewInputs

Init ==
  /\ pc = "call"
  /\ call \in Productions
  /\ input \in Inputs(call)
  /\ out = None
  /\ tried = <<>>

\* a production that is one call: it returns its result
Returns(p, r) ==
  /\ pc = "call"
  /\ call = p
  /\ pc' = "return"
  /\ out' = r
  /\ UNCHANGED <<call, input, tried>>

Hostname == Returns("hostname", hostname(Start(input)))
Host == Returns("host", host(Start(input)))
GenericParam == Returns("generic_param", generic_param(Start(input)))
LinearWhitespace == Returns("linear_whitespace", linear_whitespace(Start(input)))
StatusCode == Returns("status_code", status_code(Start(input)))
Comment == Returns("comment", comment(Start(input)))
MessageQop == Returns("message_qop", message_qop(Start(input)))
QopOptions == Returns("qop_options", qop_options(Start(input)))
Qvalue == Returns("qvalue", qvalue(Start(input)))
Subject == Returns("subject", subject(Start(input)))
Organization == Returns("organization", organization(Start(input)))
Ipv4Address == Returns("ipv4_address", ipv4_address(Start(input)))
Integer == Returns("integer", integer(Start(input)))
Ttl == Returns("ttl", ttl(Start(input)))
UriParameters == Returns("uri_parameters", uri_parameters(Start(input)))
SipUri == Returns("sip_uri", sip_uri(Start(input)))
RequestUri == Returns("request_uri", request_uri(Start(input)))
RequestLine == Returns("request_line", request_line(Start(input)))
MessageHeader == Returns("message_header", message_header(Start(input)))
Request == Returns("request", request(Start(input)))
RequestParse == Returns("Request::parse", Request_parse(input))
ResponseParse == Returns("Response::parse", Response_parse(input))
ContactParam == Returns("contact_param", contact_param(Start(input)))
RequestNew ==
  Returns("Request::new",
          Request_new(input.request_line, HeadersOf(input.headers), input.body))

\* sip_message = alt((request, response)): the first branch is applied ...
SipMessageRequest ==
  /\ pc = "call"
  /\ call = "sip_message"
  /\ pc' = "alt"
  /\ out' = request(Start(input))
  /\ tried' = <<"request">>
  /\ UNCHANGED <<call, input>>

\* ... the second one only if alt moves on from the first one's result ...
SipMessageResponse ==
  /\ pc = "alt"
  /\ alt_next(out)
  /\ pc' = "return"
  /\ out' = response(Start(input))
  /\ tried' = Append(tried, "response")
  /\ UNCHANGED <<call, input>>

\* ... and otherwise the first branch's result is the result
SipMessageReturn ==
  /\ pc = "alt"
  /\ ~alt_next(out)
  /\ pc' = "return"
  /\ UNCHANGED <<call, input, out, tried>>

Next ==
  \/ Hostname
  \/ Host
  \/ GenericParam
  \/ LinearWhitespace
  \/ StatusCode
  \/ Comment
  \/ MessageQop
  \/ QopOptions
  \/ Qvalue
  \/ Subject
  \/ Organization
  \/ Ipv4Address
  \/ Integer
  \/ Ttl
  \/ UriParameters
  \/ SipUri
  \/ RequestUri
  \/ RequestLine
  \/ MessageHeader
  \/ Request
  \/ RequestParse
  \/ ResponseParse
  \/ ContactParam
  \/ RequestNew
  \/ SipMessageRequest
  \/ SipMessageResponse
  \/ SipMessageReturn

Spec == Init /\ [][Next]_vars

---------------------------------------------------------------------------
(* Properties of the productions                                           *)

Returned(p) == pc = "return" /\ call = p

\* the run of leading digits of s
LeadingDigits(s) == Take(s, PrefixLen(is_digit, Len(s), s))

\* a digit string without its leading zeros ("0" for a run of zeros)
StripZeros(d) ==
  LET cut(k) == IF k = Len(d) THEN <<48>> ELSE Drop(d, k)  \* '0'
  IN cut(PrefixLen({48}, Len(d), d))

\* d > e for digit strings of the same length
RECURSIVE DigitsGreater(_, _)
DigitsGreater(d, e) ==
  IF d = <<>> THEN FALSE
  ELSE IF d[1] # e[1] THEN d[1] > e[1]
  ELSE DigitsGreater(Tail(d), Tail(e))

\* the number written by digit string d is greater than 2147483647
ExceedsI32(d) ==
  LET beyond(s) ==
        Len(s) > 10 \/ (Len(s) = 10 /\ DigitsGreater(s, <<50, 49, 52, 55, 52, 56, 51, 54, 52, 55>>))  \* '2147483647'
  IN beyond(StripZeros(d))

\* the decimal writing of a natural number
RECURSIVE DecimalOf(_)
DecimalOf(n) ==
  IF n < 10 THEN <<48 + n>>
  ELSE DecimalOf(n \div 10) \o <<48 + (n % 10)>>

\* the number written by a digit string of at most three digits
RECURSIVE SmallValue(_)
SmallValue(d) ==
  IF d = <<>> THEN 0
  ELSE 10 * SmallValue(Take(d, Len(d) - 1)) + (d[Len(d)] - 48)

\* the digits ttl reads: at most three of the leading ones
TtlDigits(s) == Take(s, PrefixLen(is_digit, 3, s))

\* a label that starts or ends with '-'
HyphenEdged(l) == l # <<>> /\ (l[1] = 45 \/ l[Len(l)] = 45)

\* the dot-separated labels of a name; a trailing dot ends the last label
LabelsOf(s) ==
  LET labels(ps) ==
        IF Len(ps) >= 2 /\ ps[Len(ps)] = <<>>
        THEN SubSeq(ps, 1, Len(ps) - 1)
        ELSE ps
  IN labels(split(s, 46))

ValidLabels(ls) ==
  /\ \A i \in 1..Len(ls) :
       /\ ls[i] # <<>>
       /\ \A j \in 1..Len(ls[i]) : ls[i][j] \in is_alphanumeric_hyphen
       /\ ~HyphenEdged(ls[i])
  /\ ls[Len(ls)][1] \in is_alphabetic

IsValidHostname(s) == ValidLabels(LabelsOf(s))

\* the names of the known headers whose value grammar is part of the model
ModelledHeaderNames ==
  { <<67, 111, 110, 116, 101, 110, 116, 45, 76, 101, 110, 103, 116, 104>>, <<108>>, <<67, 83, 101, 113>>, <<68, 97, 116, 101>>, <<69, 120, 112, 105, 114, 101, 115>>, <<86, 105, 97>>, <<118>>,  \* 'Content-Length' 'l' 'CSeq' 'Date' 'Expires' 'Via' 'v'
    <<77, 97, 120, 45, 70, 111, 114, 119, 97, 114, 100, 115>>, <<77, 105, 110, 45, 69, 120, 112, 105, 114, 101, 115>> }  \* 'Max-Forwards' 'Min-Expires'

\* line starts with the name of a known header and its colon
HasKnownName(line) ==
  \E n \in ModelledHeaderNames : header_name(<<n>>, Start(line)).t = "Ok"

\* C1: a header line with an unknown name and a printable/UTF-8 value is
\* accepted by message_header as Header::Extension(name, value)
C1_UnknownHeaderIsExtension ==
  Returned("message_header") =>
    \A name \in UnknownNames, value \in ExtensionValues :
      input = ExtensionLineOf(name, value) =>
        out = Ok(<<>>, [h |-> "Extension", v |-> <<name, value>>])

\* C2: a header line whose name is that of a known header never comes back
\* as Header::Extension; when its value does not match the header's grammar
\* message_header fails, and a message that holds such a line fails to parse
C2_KnownHeaderNeverExtension ==
  /\ Returned("message_header") /\ HasKnownName(input) /\ out.t = "Ok"
       => out.val.h # "Extension"
  /\ Returned("message_header") /\ input \in KnownBadLines => out.t # "Ok"
  /\ Returned("sip_message")
       /\ (\E s \in RequestStarts \cup ResponseStarts, h \in BadHeaderBlocks,
              e \in MessageEnds : input = MessageOf(s, h, e))
       => out.t # "Ok"

C2_Witness ==
  Returned("message_header") /\ input = <<67, 83, 101, 113, 58, 32, 97, 98, 99, 13, 10>> /\ out.t = "Error"  \* 'CSeq: abc\r\n'

\* C3 as stated: sip_message returns the Request when the Request grammar
\* accepts; whenever the Request grammar fails, for whatever reason, the
\* Response grammar is then applied to the same input, and the parse fails
\* only when both grammars fail
C3Stated(req, resp) ==
  /\ req.t = "Ok" => out = req
  /\ req.t # "Ok" => tried = <<"request", "response">> /\ out = resp
  /\ out.t # "Ok" => req.t # "Ok" /\ resp.t # "Ok"

C3_ResponseAfterAnyFailure ==
  Returned("sip_message") =>
    C3Stated(request(Start(input)), response(Start(input)))

\* C3: sip_message returns the Request when the Request grammar accepts; the
\* Response grammar is applied, to the same input from its start, exactly
\* when the Request grammar fails with a recoverable Error; a hard Failure of
\* the Request grammar is returned at once, Response is not tried; the parse
\* succeeds exactly when one of the two grammars accepts
C3Holds(req, resp) ==
  /\ req.t = "Error" => tried = <<"request", "response">> /\ out = resp
  /\ req.t # "Error" => tried = <<"request">> /\ out = req
  /\ out.t = "Ok" <=> (req.t = "Ok" \/ resp.t = "Ok")

C3_ResponseAfterErrorOnly ==
  Returned("sip_message") =>
    C3Holds(request(Start(input)), response(Start(input)))

C3_Witness ==
  /\ Returned("sip_message")
  /\ input = <<73, 78, 86, 73, 84, 69, 32, 115, 105, 112, 58, 97, 63, 98, 61, 99, 32, 83, 73, 80, 47, 50, 46, 48, 13, 10, 69, 120, 112, 105, 114, 101, 115, 58, 32, 57, 57, 57, 57, 57, 57, 57, 57, 57, 57, 57, 13, 10, 13, 10>>  \* 'INVITE sip:a?b=c SIP/2.0\r\nExpires: 99999999999\r\n\r\n'
  /\ tried = <<"request">>
  /\ out = Failure("InvalidIntegerError")

\* C4: for every token t that is not exactly a known method, the request
\* line 't SP request-URI SP SIP/2.0 CRLF' parses with Method::Extension(t)
C4_UnknownMethodIsExtension ==
  Returned("request_line") =>
    \A m \in MethodTokens \ KnownMethods, u \in RequestUris :
      input = RequestLineOf(m, u) =>
        out.t = "Ok" /\ out.val.method = <<"Extension", m>>

\* C5: a Content-Length line whose digits exceed the i32 range fails to parse
C5_ContentLengthOverflowFails ==
  Returned("message_header") =>
    \A n \in NumStrings :
      ExceedsI32(n) /\ input = ContentLengthLineOf(n) => out.t # "Ok"

\* C6: on an input that starts with a non-empty digit string d, integer
\* returns the value of d and leaves what follows d when the value is at
\* most 2147483647, and otherwise fails with the hard InvalidIntegerError
C6Holds(d) ==
  IF ExceedsI32(d)
  THEN out = Failure("InvalidIntegerError")
  ELSE /\ out.t = "Ok"
       /\ out.rest = Drop(input, Len(d))
       /\ out.val \in 0..I32_MAX
       /\ DecimalOf(out.val) = StripZeros(d)

C6_IntegerWithinI32 ==
  Returned("integer") /\ LeadingDigits(input) # <<>> =>
    C6Holds(LeadingDigits(input))

C6_Witness ==
  /\ Returned("integer")
  /\ input = <<50, 49, 52, 55, 52, 56, 51, 54, 52, 56, 59>>  \* '2147483648;'
  /\ out = Failure("InvalidIntegerError")

\* C7: every TTL of a parsed structure lies in 0..255, in the URI parameters
\* and in the Via parameters; a Via line with ';ttl=N', N > 255, fails
C7_TtlInRange ==
  /\ Returned("uri_parameters") /\ out.t = "Ok" =>
       \A i \in 1..Len(out.val) :
         out.val[i][1] = "TTL" => out.val[i][2] \in 0..255
  /\ Returned("message_header") /\ out.t = "Ok" /\ out.val.h = "Via" =>
       \A i \in 1..Len(out.val.v) :
         \A j \in 1..Len(out.val.v[i].params) :
           out.val.v[i].params[j][1] = "Ttl" =>
             out.val.v[i].params[j][2] \in 0..255

\* C8: ttl reads one to three digits and returns their value when it is in
\* 0..255; beyond 255 it fails with the hard InvalidTTLValue, and a SIP-URI
\* whose parameters hold such a ttl fails with it: the parameter is not
\* retried as an other-param
BadTtlParams ==
  { pre \o <<59, 116, 116, 108, 61>> \o n \o post :  \* ';ttl='
      pre \in { <<>>, <<59, 108, 114>> },  \* ';lr'
      n \in { m \in NumStrings : SmallValue(TtlDigits(m)) > 255 },
      post \in { <<>>, <<59, 108, 114>> } }  \* ';lr'

C8Holds(d) ==
  IF SmallValue(d) <= 255
  THEN out = Ok(Drop(input, Len(d)), SmallValue(d))
  ELSE out = Failure("InvalidTTLValue")

C8_TtlOutOfRangeIsHard ==
  /\ Returned("ttl") /\ TtlDigits(input) # <<>> => C8Holds(TtlDigits(input))
  /\ Returned("uri_parameters")
       /\ (\E p \in BadTtlParams, t \in UriTails \cup {<<63, 98, 61, 99>>} : input = p \o t)  \* '?b=c'
       => out = Failure("InvalidTTLValue")
  /\ (Returned("sip_uri") \/ Returned("request_uri"))
       /\ (\E p \in BadTtlParams, t \in UriTails : input = Uri(p) \o t)
       => out = Failure("InvalidTTLValue")

C8_Witness ==
  /\ Returned("sip_uri")
  /\ input = <<115, 105, 112, 58, 97, 59, 116, 116, 108, 61, 50, 53, 54, 63, 98, 61, 99>>  \* 'sip:a;ttl=256?b=c'
  /\ out = Failure("InvalidTTLValue")

\* C9 as stated: hostname fails on every input in which some dot-separated
\* label starts or ends with '-'
OnlyNameChars(s) ==
  \A i \in 1..Len(s) : s[i] \in is_alphanumeric_hyphen \cup {46}

SomeLabelHyphenEdged(s) ==
  LET some(ps) == \E i \in 1..Len(ps) : HyphenEdged(ps[i])
  IN some(split(s, 46))

C9_FailsOnAnyHyphenEdgedLabel ==
  Returned("hostname") /\ OnlyNameChars(input) /\ SomeLabelHyphenEdged(input)
    => out.t # "Ok"

\* C9: hostname fails when the leading label of the input starts or ends
\* with '-'; when it succeeds, the name it returns is the start of the input,
\* what it leaves is the rest of it, and no label of the returned name starts
\* or ends with '-': a later label that does is left unread
LeadingLabel(s) == Take(s, PrefixLen(is_alphanumeric_hyphen, Len(s), s))

C9_NoHyphenEdgedLabelIsReturned ==
  /\ Returned("hostname") /\ HyphenEdged(LeadingLabel(input)) => out.t # "Ok"
  /\ Returned("hostname") /\ out.t = "Ok" =>
       /\ input = out.val \o out.rest
       /\ ~SomeLabelHyphenEdged(out.val)

C9_Witness ==
  /\ Returned("hostname")
  /\ input = <<97, 46, 45, 97>>  \* 'a.-a'
  /\ out = Ok(<<45, 97>>, <<97, 46>>)  \* '-a' 'a.'

\* C10: hostname consumes the whole input and returns it unchanged exactly
\* when the input is a valid hostname
C10_WholeInputIffValidHostname ==
  Returned("hostname") =>
    ((out.t = "Ok" /\ out.rest = <<>> /\ out.val = input)
       <=> IsValidHostname(input))

C10_Witness ==
  /\ Returned("hostname")
  /\ input = <<97, 49, 46, 97, 46>>  \* 'a1.a.'
  /\ out = Ok(<<>>, <<97, 49, 46, 97, 46>>)  \* 'a1.a.'

---------------------------------------------------------------------------
(* C11: header order                                                       *)

\* the lines of s: each ends with its CRLF, the last one is what follows the
\* last CRLF
RECURSIVE LinesOf(_)
LinesOf(s) ==
  LET ends == { k \in 1..(Len(s) - 1) : s[k] = 13 /\ s[k + 1] = 10 }
      cut(k) == <<Take(s, k + 1)>> \o LinesOf(Drop(s, k + 1))
  IN IF ends = {} THEN <<s>>
     ELSE cut(CHOOSE k \in ends : \A j \in ends : k <= j)

\* the lines between the start line and the first empty line
HeaderLinesOf(s) ==
  LET ls == LinesOf(s)
      empty == { k \in 2..Len(ls) : ls[k] = CRLF }
  IN IF empty = {} THEN SubSeq(ls, 2, Len(ls))
     ELSE SubSeq(ls, 2, (CHOOSE k \in empty : \A j \in empty : k <= j) - 1)

\* C11: when request accepts a message with n header lines, Request.headers
\* has exactly n entries, and the k-th entry is the header that the k-th line
\* parses to: wire order is kept, and lines of the same name (or equal lines)
\* stay separate entries.
C11_HeadersInWireOrder ==
  (Returned("request") /\ out.t = "Ok") =>
    LET ls == HeaderLinesOf(input)
    IN /\ Len(out.val.headers) = Len(ls)
       /\ \A k \in 1..Len(ls) :
            message_header(Start(ls[k])) = Ok(<<>>, out.val.headers[k])

\* a request with four header lines, three of them Via, the first and the
\* last equal
C11_Witness ==
  /\ Returned("request")
  /\ out.t = "Ok"
  /\ Len(out.val.headers) = 4
  /\ out.val.headers[1].h = "Via"
  /\ out.val.headers[2].h = "Via"
  /\ out.val.headers[1] # out.val.headers[2]
  /\ out.val.headers[3].h = "MaxForwards"
  /\ out.val.headers[4] = out.val.headers[1]

---------------------------------------------------------------------------
(* C12: Accept without media ranges                                        *)

\* 'Accept' ':' optional whitespace CRLF
IsEmptyAcceptLine(line) ==
  \E ws \in SeqsUpTo({32, 9}, 2) : line = <<65, 99, 99, 101, 112, 116, 58>> \o ws \o CRLF  \* 'Accept:'

\* C12: a line 'Accept' ':' optional whitespace CRLF, with no media range, is
\* accepted by message_header and yields Header::Accept with an empty list.
C12_EmptyAcceptIsAccepted ==
  (Returned("message_header") /\ IsEmptyAcceptLine(input)) =>
    out = Ok(<<>>, [h |-> "Accept", v |-> <<>>])

---------------------------------------------------------------------------
(* C13: the optional parts of a SIP URI                                    *)

\* C13: sip_uri accepts 'sip:' host-port with the user-info, the ';'
\* parameters and the '?' header list each present or absent, and the span it
\* returns is the whole URI.
C13_UriPartsAreOptional ==
  (Returned("sip_uri") /\ input \in OptionalPartUris) => out = Ok(<<>>, input)

---------------------------------------------------------------------------
(* C14: the body                                                           *)

\* the bytes of s that follow its first empty line (the first CRLF CRLF)
AfterEmptyLine(s) ==
  LET ends == { k \in 1..(Len(s) - 3) : SubSeq(s, k, k + 3) = CRLF \o CRLF }
  IN Drop(s, (CHOOSE k \in ends : \A j \in ends : k <= j) + 3)

\* C14: when request accepts a message, no input is left unconsumed and the
\* body is exactly the bytes that follow the first empty line, whatever a
\* Content-Length header says.
C14_BodyIsAllThatFollowsTheHeaders ==
  (Returned("request") /\ out.t = "Ok") =>
    /\ out.rest = <<>>
    /\ out.val.body = Some(AfterEmptyLine(input))

\* a request with Content-Length: 0 and a body of eight bytes that holds an
\* empty line of its own
C14_Witness ==
  /\ Returned("request")
  /\ out.t = "Ok"
  /\ Len(out.val.headers) = 1
  /\ out.val.headers[1].h = "ContentLength"
  /\ out.val.headers[1].v = <<48>>  \* '0'
  /\ out.val.body = Some(<<97, 98, 13, 10, 13, 10, 99, 100>>)  \* 'ab\r\n\r\ncd'

---------------------------------------------------------------------------
(* C15: Request::parse and Response::parse                                 *)

\* does s hold the bytes t somewhere
Contains(s, t) ==
  \E k \in 0..(Len(s) - Len(t)) : SubSeq(s, k + 1, k + Len(t)) = t

\* the hard failures the inputs were built to raise, by what raises them
ExpectedFailures(s) ==
  (IF Contains(s, <<59, 116, 116, 108, 61, 50, 53, 54>>) THEN {"InvalidTTLValue"} ELSE {})  \* ';ttl=256'
    \cup (IF Contains(s, <<57, 57, 57, 57, 57, 57, 57, 57, 57, 57, 57>>) THEN {"InvalidIntegerError"} ELSE {})  \* '99999999999'
    \cup (IF Contains(s, <<192, 128>>) THEN {"Utf8Error"} ELSE {})

\* what parse returns when the grammar returns g on the whole input: the
\* message of a grammar that accepted all of the input, the error of a hard
\* failure as it is, UnknownError for a recoverable failure
C15Holds(g) ==
  \/ g.t = "Ok" /\ g.rest = <<>> /\ out = [t |-> "Ok", val |-> g.val]
  \/ /\ g.t = "Failure"
     /\ out = [t |-> "Err", kind |-> g.kind]
     /\ g.kind \in ExpectedFailures(input)
  \/ g.t = "Error" /\ out = [t |-> "Err", kind |-> "UnknownError"]

\* C15: Request::parse and Response::parse return a complete message (the
\* grammar accepted the whole input) or an error: the error of the grammar's
\* hard failure unchanged, UnknownError for every recoverable failure.
C15_ParseIsCompleteOrError ==
  /\ Returned("Request::parse") => C15Holds(request(Start(input)))
  /\ Returned("Response::parse") => C15Holds(response(Start(input)))

\* Request::parse on a request whose Subject is not UTF-8
C15_Witness ==
  /\ Returned("Request::parse")
  /\ input = <<73, 78, 86, 73, 84, 69, 32, 115, 105, 112, 58, 97, 63, 98, 61, 99, 32, 83, 73, 80, 47, 50, 46, 48, 13, 10, 83, 117, 98, 106, 101, 99, 116, 58, 32>> \o <<192, 128>> \o <<13, 10, 13, 10>>  \* 'INVITE sip:a?b=c SIP/2.0\r\nSubject: ' '\r\n\r\n'
  /\ out = [t |-> "Err", kind |-> "Utf8Error"]

---------------------------------------------------------------------------
(* C16: compact header names                                               *)

\* C16: a header line written with the compact name of a header, or with its
\* canonical name in another letter case, gives the result that the line
\* with the canonical name and the same value gives, and a line that is
\* accepted yields the variant of that header.
C16_CompactNameIsTheSameHeader ==
  Returned("message_header") =>
    \A H \in CompactHeaders : \A n \in NamesOf(H) : \A v \in H.values :
      input = HeaderLineOf(n, v) =>
        /\ out = message_header(Start(HeaderLineOf(H.name, v)))
        /\ out.t = "Ok" => out.val.h = H.variant

\* the compact form of a From line, accepted
C16_Witness ==
  /\ Returned("message_header")
  /\ input = <<102, 58, 32, 66, 111, 98, 32, 60, 115, 105, 112, 58, 98, 111, 98, 64, 98, 105, 108, 111, 120, 105, 46, 99, 111, 109, 62, 59, 116, 97, 103, 61, 97, 54, 99, 56, 53, 99, 102, 13, 10>>  \* 'f: Bob <sip:bob@biloxi.com>;tag=a6c85cf\r\n'
  /\ out.t = "Ok"
  /\ out.val.h = "From"
  /\ out.val.v.addr = <<115, 105, 112, 58, 98, 111, 98, 64, 98, 105, 108, 111, 120, 105, 46, 99, 111, 109>>  \* 'sip:bob@biloxi.com'

---------------------------------------------------------------------------
(* C17: contact_param                                                      *)

\* C17: contact_param on '[display-name] <URI>' followed by k parameters
\* returns a Contact whose name is the display name without its quotes (None
\* when there is none), whose addr is the URI between the angle brackets and
\* whose params are the k parameters in wire order: q= gives Q, expires=
\* gives Expires(n), any other gives Extension.
C17_ContactFields ==
  Returned("contact_param") =>
    \A dn \in DisplayNames : \A u \in ContactUris : \A ps \in ContactParamLists :
      input = ContactOf(dn, u, ps) =>
        out = Ok(<<>>, [name |-> dn.name, addr |-> u,
                        params |-> [k \in 1..Len(ps) |-> ps[k].param]])

---------------------------------------------------------------------------
(* C18: the Via header                                                     *)

\* C18: a Via line with n >= 1 comma-separated via-parms yields Header::Via
\* with n entries in wire order, each with the protocol, the sent_by and the
\* params of its via-parm; a Via line with no via-parm fails.
C18_ViaEntries ==
  Returned("message_header") =>
    /\ \A vs \in ViaParmLists :
         input = ViaLineOf(vs) =>
           out = Ok(<<>>, [h |-> "Via", v |-> [k \in 1..Len(vs) |-> vs[k].via]])
    /\ input \in EmptyViaLines => out.t # "Ok"

---------------------------------------------------------------------------
(* C19: the request line                                                   *)

\* C19: request_line on 'method SP request-URI SP SIP/major.minor CRLF'
\* returns the variant of the method token, the bytes of the request-URI
\* and the version (Two when it is numerically 2.0, Other(major, minor)
\* otherwise); it fails when a space or the CRLF is missing.
C19_RequestLineFields ==
  Returned("request_line") =>
    /\ \A m \in MethodTokens, u \in RequestLineUris, v \in Versions :
         input = RequestLineWith(m, u, v.text) =>
           out = Ok(<<>>, [method |-> MethodVariant(m), uri |-> u,
                           version |-> v.version])
    /\ input \in MalformedRequestLines => out.t # "Ok"

---------------------------------------------------------------------------
(* C20: ipv4_address                                                       *)

\* i starts with groups of g[1], g[2], g[3], g[4] digits separated by dots
StartsWithGroups(i, g) ==
  LET d1 == g[1] + 1
      d2 == d1 + g[2] + 1
      d3 == d2 + g[3] + 1
      n == d3 + g[4]
  IN /\ Len(i) >= n
     /\ \A k \in 1..n :
          IF k \in {d1, d2, d3} THEN i[k] = 46 ELSE i[k] \in 48..57
GroupLengths == [1..4 -> 1..3]
GroupsLen(g) == g[1] + g[2] + g[3] + g[4] + 3

\* C20: ipv4_address succeeds exactly when the input starts with four groups
\* of 1 to 3 digits separated by single dots, and returns the longest such
\* start; the groups are not range-checked (999.999.999.999 is accepted);
\* a first group of more than 3 digits and the empty input fail.
C20_Ipv4IsLexical ==
  Returned("ipv4_address") =>
    /\ out.t = "Ok" <=> \E g \in GroupLengths : StartsWithGroups(input, g)
    /\ out.t = "Ok" =>
         \E g \in GroupLengths :
           /\ StartsWithGroups(input, g)
           /\ \A h \in GroupLengths :
                StartsWithGroups(input, h) => GroupsLen(h) <= GroupsLen(g)
           /\ out.val = Take(input, GroupsLen(g))
           /\ out.rest = Drop(input, GroupsLen(g))
    /\ input = <<57, 57, 57, 46, 57, 57, 57, 46, 57, 57, 57, 46, 57, 57, 57>> => out = Ok(<<>>, input)  \* '999.999.999.999'
    /\ input \in { <<49, 49, 49, 49, 46, 49, 46, 49, 46, 49>>, <<>> } => out.t # "Ok"  \* '1111.1.1.1'

C20_Witness ==
  /\ Returned("ipv4_address")
  /\ input = <<57, 57, 57, 46, 57, 57, 57, 46, 57, 57, 57, 46, 57, 57, 57>>  \* '999.999.999.999'
  /\ out.t = "Ok"

---------------------------------------------------------------------------
(* C21: a malformed label and the alternatives after hostname              *)

\* the leading bytes of s that a name is made of
NamePrefix(s) ==
  Take(s, PrefixLen(is_alphanumeric_hyphen \cup {46}, Len(s), s))

\* some label starts or ends with '-', or the last one starts with no letter
MalformedLabels(ls) ==
  \/ \E k \in 1..Len(ls) : HyphenEdged(ls[k])
  \/ ls[Len(ls)] # <<>> /\ ls[Len(ls)][1] \notin is_alphabetic

\* hostname rejects s, whose name has a malformed label
RejectedForLabelShape(s) ==
  /\ NamePrefix(s) # <<>>
  /\ MalformedLabels(LabelsOf(NamePrefix(s)))
  /\ hostname(Start(s)).t # "Ok"

\* C21 as stated: when hostname rejects a name for the shape of a label, host
\* ends in a hard failure, without the result of a later alternative
C21_LabelShapeStopsAlternation ==
  Returned("host") /\ RejectedForLabelShape(input) => out.t = "Failure"

\* s starts with the bytes t
HasPrefix(s, t) == Len(s) >= Len(t) /\ Take(s, Len(t)) = t

\* the value of generic parameter x in s, s being "x=" and a value
ValueOfX(s) == Drop(s, 2)

\* C21: when hostname rejects a name for the shape of a label, the rejection
\* is a recoverable error and the alternation goes on: host returns what
\* ipv4_address or else ipv6_reference returns on the same input, and a
\* generic parameter value that host rejects is read as a token
C21_LabelShapeIsRecoverable ==
  /\ Returned("host") /\ RejectedForLabelShape(input) =>
       /\ hostname(Start(input)).t = "Error"
       /\ out.t # "Failure"
       /\ ipv4_address(Start(input)).t = "Ok" => out = ipv4_address(Start(input))
       /\ ipv4_address(Start(input)).t # "Ok" => out = ipv6_reference(Start(input))
  /\ Returned("generic_param") /\ HasPrefix(input, <<120, 61>>)  \* 'x='
       /\ RejectedForLabelShape(ValueOfX(input))
       /\ host(Start(ValueOfX(input))).t # "Ok" =>
       out = Ok(<<>>, <<<<120>>, Some(ValueOfX(input))>>)  \* 'x'

\* host on "127.0.0.1": hostname rejects the name, ipv4_address reads it
C21_Witness ==
  /\ Returned("host")
  /\ input = <<49, 50, 55, 46, 48, 46, 48, 46, 49>>  \* '127.0.0.1'
  /\ hostname(Start(input)) = Error("InvalidHostname")
  /\ out = Ok(<<>>, <<49, 50, 55, 46, 48, 46, 48, 46, 49>>)  \* '127.0.0.1'

---------------------------------------------------------------------------
(* C22: generic_param                                                      *)

IsToken(v) == v # <<>> /\ \A k \in 1..Len(v) : v[k] \in is_token

\* C22: generic_param on name=value, value a token, consumes all of it and
\* returns the name with Some(value); on a name alone, or a name and '=', it
\* returns the name with None
C22_GenericParamValue ==
  Returned("generic_param") =>
    \A n \in ParamNames :
      /\ input = n => out.t = "Ok" /\ out.val = <<n, None>>
      /\ input = n \o <<61>> => out.t = "Ok" /\ out.val = <<n, None>>  \* '='
      /\ \A v \in ParamValues :
           input = n \o <<61>> \o v /\ IsToken(v) => out = Ok(<<>>, <<n, Some(v)>>)  \* '='

---------------------------------------------------------------------------
(* C23: the text of Subject and Organization                               *)

\* the text of a Subject or Organization line
TextOf(line) ==
  Drop(line, PrefixLen((0..255) \ {58}, Len(line), line) + 2)

\* C23 as stated: a text of printable ASCII, LWS and lead bytes with their
\* continuation bytes is accepted, whatever UTF-8 says of it
C23_TextIsAcceptedUnvalidated ==
  Returned("subject") \/ Returned("organization") =>
    /\ out.t = "Ok"
    /\ out.rest = <<>>
    /\ out.val.v = Some(TextOf(input))

\* C23: such a text is accepted, whole, when it is well-formed UTF-8; when
\* it is not, the header fails with the hard failure Utf8Error
C23_TextIsAcceptedIfUtf8 ==
  Returned("subject") \/ Returned("organization") =>
    /\ TextOf(input) \in ValidTexts =>
         out = Ok(<<>>, [h |-> IF call = "subject" THEN "Subject" ELSE "Organization",
                         v |-> Some(TextOf(input))])
    /\ TextOf(input) \in OtherTexts => out = Failure("Utf8Error")

\* a subject of two bytes, a lead byte of the first range and a continuation
\* byte, that is an overlong form
C23_Witness ==
  /\ Returned("subject")
  /\ input = <<115, 58, 32>> \o <<192, 128>>  \* 's: '
  /\ out = Failure("Utf8Error")

---------------------------------------------------------------------------
(* C24: linear_whitespace                                                  *)

\* 1*WSP
IsWsp1(s) == s # <<>> /\ \A k \in 1..Len(s) : s[k] \in {32, 9}

\* LWS = [*WSP CRLF] 1*WSP
IsLws(s) ==
  \/ IsWsp1(s)
  \/ \E k \in 1..(Len(s) - 2) :
       /\ \A j \in 1..(k - 1) : s[j] \in {32, 9}
       /\ s[k] = 13 /\ s[k + 1] = 10
       /\ IsWsp1(Drop(s, k + 1))

HasLwsPrefix(s) == \E k \in 1..Len(s) : IsLws(Take(s, k))

\* C24: linear_whitespace succeeds on every input that has a non-empty prefix
\* of the form [*WSP CRLF] 1*WSP, and fails on every input that has none
C24_LinearWhitespaceIsLws ==
  Returned("linear_whitespace") => (out.t = "Ok" <=> HasLwsPrefix(input))

---------------------------------------------------------------------------
(* C25: status_code                                                        *)

\* the input starts with three decimal digits
ThreeDigits(s) == Len(s) >= 3 /\ \A k \in 1..3 : s[k] \in 48..57

\* C25: status_code returns what the matcher of three digits alone returns:
\* the first three bytes and what follows them when they are digits, the
\* same failure when they are not
C25_StatusCodeIsAnyThreeDigits ==
  Returned("status_code") =>
    /\ out = take_while_m_n(3, 3, is_digit, Start(input))
    /\ ThreeDigits(input) => out = Ok(Drop(input, 3), Take(input, 3))
    /\ ~ThreeDigits(input) => out.t = "Error"

\* a code of the list, 480, read by its tag
C25_Witness ==
  /\ Returned("status_code")
  /\ input = <<52, 56, 48, 120>>  \* '480x'
  /\ first_tag(<<<<52, 56, 48>>>>, Start(input)).t = "Ok"  \* '480'
  /\ out = Ok(<<120>>, <<52, 56, 48>>)  \* 'x' '480'

---------------------------------------------------------------------------
(* C26: comment                                                            *)

\* the index in s of the ')' that closes the comment open at depth d, read
\* from index k on: a backslash quotes the byte after it, byte 1 may only
\* stand quoted; 0 when there is no such ')'
RECURSIVE ClosingAt(_, _, _)
ClosingAt(s, k, d) ==
  IF k > Len(s) THEN 0
  ELSE IF s[k] = 92 THEN IF k < Len(s) THEN ClosingAt(s, k + 2, d) ELSE 0
  ELSE IF s[k] = 40 THEN ClosingAt(s, k + 1, d + 1)
  ELSE IF s[k] = 41 THEN IF d = 1 THEN k ELSE ClosingAt(s, k + 1, d - 1)
  ELSE IF s[k] = 1 THEN 0
  ELSE ClosingAt(s, k + 1, d)

\* the number of leading spaces and tabs of s
LeadingWsp(s) == PrefixLen({32, 9}, Len(s), s)

\* the index of the ')' that closes the comment s starts with, after
\* optional whitespace; 0 when s starts with no comment, or with one that
\* is not closed
CommentEnd(s) ==
  IF LeadingWsp(s) < Len(s) /\ s[LeadingWsp(s) + 1] = 40
  THEN ClosingAt(s, LeadingWsp(s) + 2, 1)
  ELSE 0

\* the ')' at index m of s and the whitespace right_parenthesis takes after it
ThroughClosing(s, m) == m + LeadingWsp(Drop(s, m))

\* the number of '(' in s
Parentheses(s) == Cardinality({k \in 1..Len(s) : s[k] = 40})

\* C26: comment accepts a parenthesised text of comment characters, LWS,
\* quoted pairs and balanced comments, nested to any depth, and consumes it
\* through the right parenthesis that closes the outermost comment; it fails
\* when that parenthesis is missing; comments are never nested deeper than
\* the number of '(' in the input
C26_CommentIsBalanced ==
  Returned("comment") =>
    /\ CommentEnd(input) > 0 =>
         /\ out = Ok(Drop(input, ThroughClosing(input, CommentEnd(input))),
                     Take(input, ThroughClosing(input, CommentEnd(input))))
         /\ comment_nest(Start(input), 1).val <= Parentheses(input)
    /\ CommentEnd(input) = 0 => out.t = "Error"

\* a comment inside a comment
C26_Witness ==
  /\ Returned("comment")
  /\ input = <<40, 40, 97, 41, 41>>  \* '((a))'
  /\ out = Ok(<<>>, <<40, 40, 97, 41, 41>>)  \* '((a))'
  /\ comment_nest(Start(input), 1).val = 2

---------------------------------------------------------------------------
(* C27: the qop values                                                     *)

\* the QOPValue that token v stands for
QopValueOf(v) ==
  IF Lower(v) = <<97, 117, 116, 104, 45, 105, 110, 116>> THEN <<"AuthInt">>  \* 'auth-int'
  ELSE IF Lower(v) = <<97, 117, 116, 104>> THEN <<"Auth">>  \* 'auth'
  ELSE <<"Extension", v>>

\* auth, auth-int in any case, or a token that starts like neither
Distinct(v) == Lower(v) \in { <<97, 117, 116, 104>>, <<97, 117, 116, 104, 45, 105, 110, 116>>, <<120>> }  \* 'auth' 'auth-int' 'x'

\* C27: auth-int is read as AuthInt, never as Auth with "-int" left over:
\* message_qop returns the value that follows "qop=", qop_options the values
\* of the quoted list, in order
C27_AuthIntIsRecognised ==
  /\ Returned("message_qop") =>
       \A v \in QopTokens :
         input = <<113, 111, 112, 61>> \o v /\ Distinct(v) => out = Ok(<<>>, QopValueOf(v))  \* 'qop='
  /\ Returned("qop_options") =>
       \A vs \in QopLists :
         input = QopOptionsOf(vs) /\ (\A k \in 1..Len(vs) : Distinct(vs[k])) =>
           out = Ok(<<>>, [k \in 1..Len(vs) |-> QopValueOf(vs[k])])

---------------------------------------------------------------------------
(* C28: qvalue                                                             *)

\* "0" or "1", alone or followed by '.' and at most three digits, that are
\* all '0' after "1"
IsQvalue(s) ==
  /\ Len(s) \in {1} \cup (2..5)
  /\ s[1] \in {48, 49}
  /\ Len(s) >= 2 => s[2] = 46
  /\ \A k \in 3..Len(s) : s[k] \in (IF s[1] = 48 THEN 48..57 ELSE {48})

\* the q values among parameters ps
QValuesOf(ps) == { ps[k][2] : k \in { j \in DOMAIN ps : ps[j][1] = "Q" } }

\* C28: the span qvalue accepts is the start of the input and has the shape
\* of a number from 0 to 1 with at most three decimals; so has every Q value
\* among the parameters of a Contact
C28_QvalueIsBounded ==
  /\ Returned("qvalue") /\ out.t = "Ok" =>
       IsQvalue(out.val) /\ input = out.val \o out.rest
  /\ Returned("contact_param") /\ out.t = "Ok" =>
       \A q \in QValuesOf(out.val.params) : IsQvalue(q)

\* a Contact with q=1.5: the Q value is "1.", the 5 is left unread
C28_Witness ==
  /\ Returned("contact_param")
  /\ input = <<60, 115, 105, 112, 58, 97, 62, 59, 113, 61, 49, 46, 53>>  \* '<sip:a>;q=1.5'
  /\ out.t = "Ok"
  /\ QValuesOf(out.val.params) = { <<49, 46>> }  \* '1.'
  /\ out.rest = <<53>>  \* '5'

---------------------------------------------------------------------------
(* C29: requests and responses                                             *)

\* the productions whose inputs are whole messages
MessageCalls == { "sip_message", "request", "Request::parse", "Response::parse" }

AcceptedAsResponse(i) == response(Start(i)).t = "Ok"
AcceptedAsRequest(i) == request(Start(i)).t = "Ok"

\* C29: no message is accepted both as a request and as a response; on a
\* message accepted as a response, request fails at its request line with a
\* recoverable error, and sip_message goes on to response and returns it
C29_RequestAndResponseAreDisjoint ==
  /\ call \in MessageCalls =>
       /\ ~(AcceptedAsRequest(input) /\ AcceptedAsResponse(input))
       /\ AcceptedAsResponse(input) =>
            /\ request_line(Start(input)).t = "Error"
            /\ request(Start(input)).t = "Error"
  /\ call = "sip_message" /\ AcceptedAsResponse(input) =>
       /\ pc = "alt" => out.t = "Error"
       /\ pc = "return" =>
            /\ tried = <<"request", "response">>
            /\ out.t = "Ok"
            /\ out.val.t = "Response"

\* a response whose version is written in lower case: request reads sip as
\* a method and stops at the slash, response reads the whole message
C29_Witness ==
  /\ call = "sip_message"
  /\ pc = "return"
  /\ input = <<115, 105, 112, 47, 50, 46, 48, 32, 52, 48, 52, 32, 78, 111, 116, 32, 70, 111, 117, 110, 100, 13, 10, 69, 120, 112, 105, 114, 101, 115, 58, 32, 51, 54, 48, 48, 13, 10, 13, 10>>  \* 'sip/2.0 404 Not Found\r\nExpires: 3600\r\n\r\n'
  /\ tried = <<"request", "response">>
  /\ out.t = "Ok"
  /\ out.val.t = "Response"
  /\ out.val.content = input

---------------------------------------------------------------------------
(* C30: Request::new                                                       *)

\* the mandatory headers, in the order in which Request::new misses them
MandatoryHeaders ==
  << [h |-> "CallID", error |-> "MissingCallIDHeader"],
     [h |-> "CSeq", error |-> "MissingCSeqHeader"],
     [h |-> "From", error |-> "MissingFromHeader"],
     [h |-> "MaxForwards", error |-> "MissingMaxForwardsHeader"],
     [h |-> "To", error |-> "MissingToHeader"],
     [h |-> "Via", error |-> "MissingViaHeader"] >>

Holds(hs, h) == \E k \in DOMAIN hs : hs[k].h = h
Missing(hs) ==
  { m \in DOMAIN MandatoryHeaders : ~Holds(hs, MandatoryHeaders[m].h) }
Least(S) == CHOOSE m \in S : \A n \in S : m <= n
\* the value of the last header of the kind h
LastOf(hs, h) ==
  hs[Greatest({ k \in DOMAIN hs : hs[k].h = h })].v

\* C30: Request::new succeeds exactly when none of Call-ID, CSeq, From,
\* Max-Forwards, To and Via is missing, and otherwise returns the error of
\* the first missing one in that order; on success the header list, the
\* request line and the body are the arguments, and each field is the value
\* of the last header of its kind
C30_NewChecksMandatoryHeaders ==
  Returned("Request::new") =>
    LET hs == HeadersOf(input.headers)
        missing == Missing(hs)
    IN /\ out.t = "Ok" <=> missing = {}
       /\ out.t # "Ok" =>
            /\ out.t = "Err"
            /\ out.kind = MandatoryHeaders[Least(missing)].error
       /\ out.t = "Ok" =>
            /\ out.val.headers = hs
            /\ out.val.request_line = input.request_line
            /\ out.val.body = input.body
            /\ out.val.call_id = LastOf(hs, "CallID")
            /\ out.val.cseq = LastOf(hs, "CSeq")
            /\ out.val.from = LastOf(hs, "From")
            /\ out.val.max_forwards = LastOf(hs, "MaxForwards")
            /\ out.val.to = LastOf(hs, "To")
            /\ out.val.via = LastOf(hs, "Via")

\* every header of the list, two of each mandatory kind but From: the fields
\* are those of the second ones
C30_Witness ==
  /\ Returned("Request::new")
  /\ input.headers = HeaderPool
  /\ out.t = "Ok"
  /\ Len(out.val.headers) = MaxHeaders
  /\ out.val.call_id = <<120>>  \* 'x'
  /\ out.val.max_forwards = 0
  /\ out.val.cseq = <<2, <<"Ack">>>>
  /\ Len(out.val.via) = 2

====
